---------------------------- MODULE Spec2Model ----------------------------
(***************************************************************************)
(* Prompt-templated inference gateways of the generative-ai services:      *)
(* code review (POST /review), medical notes (POST /extract/), image       *)
(* caption (POST /caption/), meeting notes (POST /process/, current and    *)
(* first version) and their health probes.                                 *)
(*                                                                         *)
(* Text is a sequence of one-character strings.  The fixed instruction     *)
(* text of a prompt, which holds no placeholder, is carried as one element *)
(* of the sequence.                                                        *)
(***************************************************************************)
EXTENDS Integers, Sequences, FiniteSets, TLC

VARIABLES
    config,     \* the configuration read at process start
    parked,     \* the invocations in progress that are not running now
    svc,        \* the endpoint or function serving the current request
    pc,         \* "idle", "calling" (a POST is in flight) or "done"
    request,    \* the request being served
    posts,      \* the POSTs to /api/generate made for it, with their outcomes
    response,   \* the response to the caller
    locals,     \* local variables of process_audio
    tmp_files,  \* number of temporary audio files on disk
    history,    \* code-review frontend: st.session_state.history
    batch       \* medical-notes frontend: the batch run and its results

vars ==
    <<config, parked, svc, pc, request, posts, response, locals, tmp_files,
      history, batch>>

-----------------------------------------------------------------------------
(* Bounds of the model *)

\* number of fragments a generated code string is built from
MaxFrags == 3

\* how far above the size ceiling the long inputs range
MaxOver == 1

\* temporary files the disk holds at most
MaxTmpFiles == 1

\* invocations in progress besides the running one
MaxParked == 1

-----------------------------------------------------------------------------
(* Python str operations *)

\* the whitespace str.strip() and str.split() act on
Whitespace == {" ", "\n", "\t"}

\* s.strip()
Strip(s) ==
    IF \A i \in 1..Len(s) : s[i] \in Whitespace
    THEN << >>
    ELSE LET first == CHOOSE i \in 1..Len(s) :
                          /\ s[i] \notin Whitespace
                          /\ \A j \in 1..(i - 1) : s[j] \in Whitespace
             last  == CHOOSE i \in 1..Len(s) :
                          /\ s[i] \notin Whitespace
                          /\ \A j \in (i + 1)..Len(s) : s[j] \in Whitespace
         IN  SubSeq(s, first, last)

\* p in s
Contains(s, p) ==
    \E i \in 1..(Len(s) - Len(p) + 1) :
        \A k \in 1..Len(p) : s[i + k - 1] = p[k]

\* c.lower() of one character
LowerChar(c) ==
    CASE c = "S" -> "s" [] c = "E" -> "e" [] c = "L" -> "l" [] c = "C" -> "c"
      [] c = "T" -> "t" [] c = "H" -> "h" [] c = "M" -> "m" [] c = "F" -> "f"
      [] c = "R" -> "r" [] c = "O" -> "o" [] c = "D" -> "d" [] c = "Y" -> "y"
      [] c = "P" -> "p"
      [] OTHER -> c

\* s.lower()
Lower(s) == SubSeq([i \in 1..Len(s) |-> LowerChar(s[i])], 1, Len(s))

\* s.count('\n')
CountNewlines(s) == Cardinality({i \in 1..Len(s) : s[i] = "\n"})

\* len(s.split())
CountWords(s) ==
    Cardinality({i \in 1..Len(s) :
                    /\ s[i] \notin Whitespace
                    /\ (i = 1 \/ s[i - 1] \in Whitespace)})

\* the string of n copies of the character c
Repeat(c, n) == SubSeq([i \in 1..n |-> c], 1, n)

\* index of the first "}" of t at or after i, 0 when there is none
RECURSIVE CloseBrace(_, _)
CloseBrace(t, i) ==
    IF i > Len(t) THEN 0
    ELSE IF t[i] = "}" THEN i
    ELSE CloseBrace(t, i + 1)

\* t.format(**args): each replacement field {name} of the template t is
\* replaced by args[name]; the substituted text is not parsed again
RECURSIVE FormatFrom(_, _, _)
FormatFrom(t, i, args) ==
    IF i > Len(t) THEN << >>
    ELSE IF t[i] = "{"
         THEN LET j == CloseBrace(t, i)
              IN  args[SubSeq(t, i + 1, j - 1)] \o FormatFrom(t, j + 1, args)
         ELSE <<t[i]>> \o FormatFrom(t, i + 1, args)

FormatSanitised(t, args) ==
    FormatFrom(t, 1,
        [k \in DOMAIN args |->
            SelectSeq(args[k], LAMBDA c : c \notin {"{", "}"})])

Format(t, args) == FormatFrom(t, 1, args)


\* the base64 alphabet
B64Alphabet ==
    <<"A", "B", "C", "D", "E", "F", "G", "H", "I", "J", "K", "L", "M", "N", "O", "P", "Q", "R", "S", "T", "U", "V", "W", "X", "Y", "Z", "a", "b", "c", "d", "e", "f">> \o
    <<"g", "h", "i", "j", "k", "l", "m", "n", "o", "p", "q", "r", "s", "t", "u", "v", "w", "x", "y", "z", "0", "1", "2", "3", "4", "5", "6", "7", "8", "9", "+", "/">>

B64Char(n) == B64Alphabet[n + 1]

\* base64.b64encode(b).decode("utf-8") of a sequence of bytes
RECURSIVE b64encode(_)
b64encode(b) ==
    IF Len(b) = 0 THEN << >>
    ELSE IF Len(b) = 1
    THEN <<B64Char(b[1] \div 4), B64Char((b[1] % 4) * 16), "=", "=">>
    ELSE IF Len(b) = 2
    THEN <<B64Char(b[1] \div 4), B64Char((b[1] % 4) * 16 + b[2] \div 16),
           B64Char((b[2] % 16) * 4), "=">>
    ELSE <<B64Char(b[1] \div 4), B64Char((b[1] % 4) * 16 + b[2] \div 16),
           B64Char((b[2] % 16) * 4 + b[3] \div 64), B64Char(b[3] % 64)>>
         \o b64encode(SubSeq(b, 4, Len(b)))

-----------------------------------------------------------------------------
(* Optional values: Optional[str] fields and parameters *)

None == [some |-> FALSE, v |-> << >>]

Some(v) == [some |-> TRUE, v |-> v]

\* Python truthiness of an Optional[str]: None and "" are falsy
Truthy(opt) == opt.some /\ Len(opt.v) > 0

-----------------------------------------------------------------------------
(* The inference backend as seen through requests.post / requests.get *)

\* a transport failure: the classes of the raised requests exception
Raised(classes) ==
    [raised |-> classes, status |-> 0, json |-> "none",
     fields |-> [k \in {} |-> << >>]]

\* an HTTP answer: status, and what response.json() finds in the body
Answer(status, json, fields) ==
    [raised |-> {}, status |-> status, json |-> json, fields |-> fields]

NoFields == [k \in {} |-> << >>]

ConnectionRefused == Raised({"ConnectionError", "RequestException"})

ReadTimeout == Raised({"Timeout", "RequestException"})

\* requests.exceptions.ConnectTimeout(ConnectionError, Timeout)
ConnectTimeout == Raised({"ConnectionError", "Timeout", "RequestException"})

TransportFailures == {ConnectionRefused, ReadTimeout, ConnectTimeout}

TextOk == <<" ", "o", "k", "\n">>

TextJson == <<"{", "}">>

\* the answers of the backend to POST /api/generate
GenerateAnswers ==
    {Answer(200, "object", [k \in {"response"} |-> TextOk]),
     Answer(200, "object", [k \in {"response"} |-> << >>]),
     Answer(200, "object", NoFields),
     Answer(200, "object", [k \in {"error"} |-> TextOk]),
     Answer(200, "array", NoFields),
     Answer(200, "invalid", NoFields),
     Answer(201, "object", [k \in {"response"} |-> TextOk]),
     Answer(404, "object", [k \in {"error"} |-> TextOk]),
     Answer(500, "invalid", NoFields)}

PostOutcomes == TransportFailures \cup GenerateAnswers

\* response.raise_for_status() raises HTTPError for 4xx and 5xx
RaisesForStatus(o) == o.status >= 400 /\ o.status < 600

\* a POST whose answer has not arrived
Pending == [raised |-> {"pending"}, status |-> 0, json |-> "none",
            fields |-> NoFields]

-----------------------------------------------------------------------------
(* Code review: backend/config.py, backend/models.py *)

ollama_url == "http://localhost:11434/api/generate"

model_name == "codellama"

\* Settings.request_timeout, in seconds
request_timeout == 300

ReviewType == {"general", "bugs", "quality", "performance", "security"}

Absent == "<absent>"

\* CodeReviewRequest: code has min_length 1, review_type is a ReviewType
\* and defaults to GENERAL, language is optional
CodeReviewRequestValid(body) ==
    /\ Len(body.code) >= 1
    /\ body.review_type \in ReviewType \cup {Absent}

CodeReviewRequest(body) ==
    [code |-> body.code,
     review_type |-> IF body.review_type = Absent THEN "general"
                     ELSE body.review_type,
     language |-> body.language]

-----------------------------------------------------------------------------
(* Code review: backend/services/llm_service.py *)

Backtick == "BACKTICK"

Fence == <<Backtick, Backtick, Backtick>>

\* the placeholder part every template ends with
TemplateTail ==
    Fence \o <<"{", "l", "a", "n", "g", "u", "a", "g", "e", "}", "\n", "{", "c", "o", "d", "e", "}", "\n">> \o Fence

REVIEW_PROMPTS ==
    [k \in ReviewType |->
        <<CASE k = "general" ->
                 "You are a senior developer performing a comprehensive code review. ... Code to review:\n"
            [] k = "bugs" ->
                 "You are a bug detection expert. Analyze the following code ONLY for bugs and errors. ... Code to analyze:\n"
            [] k = "quality" ->
                 "You are a code quality expert. Review the following code for best practices. ... Code to review:\n"
            [] k = "performance" ->
                 "You are a performance optimization expert. Analyze the following code for efficiency. ... Code to analyze:\n"
            [] k = "security" ->
                 "You are a security expert. Analyze the following code for vulnerabilities. ... Code to analyze:\n">>
        \o TemplateTail]

\* REVIEW_PROMPTS.get(review_type, REVIEW_PROMPTS["general"])
PromptTemplateNoDefault(review_type) ==
    IF review_type \in DOMAIN config.review.REVIEW_PROMPTS
    THEN config.review.REVIEW_PROMPTS[review_type]
    ELSE << >>

PromptTemplate(review_type) ==
    IF review_type \in DOMAIN config.review.REVIEW_PROMPTS
    THEN config.review.REVIEW_PROMPTS[review_type]
    ELSE config.review.REVIEW_PROMPTS["general"]

Python == <<"p", "y", "t", "h", "o", "n">>

Javascript == <<"j", "a", "v", "a", "s", "c", "r", "i", "p", "t">>

Java == <<"j", "a", "v", "a">>

Cpp == <<"c", "p", "p">>

Go == <<"g", "o">>

Html == <<"h", "t", "m", "l">>

Sql == <<"s", "q", "l">>

Code == <<"c", "o", "d", "e">>

KwDef == <<"d", "e", "f", " ">>

KwColon == <<":">>

KwFunction == <<"f", "u", "n", "c", "t", "i", "o", "n", " ">>

KwConst == <<"c", "o", "n", "s", "t", " ">>

KwLet == <<"l", "e", "t", " ">>

KwPublicClass == <<"p", "u", "b", "l", "i", "c", " ", "c", "l", "a", "s", "s", " ">>

KwPrivate == <<"p", "r", "i", "v", "a", "t", "e", " ">>

KwInclude == <<"#", "i", "n", "c", "l", "u", "d", "e">>

KwFunc == <<"f", "u", "n", "c", " ">>

KwBrace == <<"{">>

KwHtml == <<"<", "h", "t", "m", "l">>

KwDoctype == <<"<", "!", "d", "o", "c", "t", "y", "p", "e">>

KwSelect == <<"s", "e", "l", "e", "c", "t", " ">>

KwFrom == <<"f", "r", "o", "m", " ">>

\* LLMService._detect_language with the javascript rule tried first
_detect_language_js_first(code) ==
    LET code_lower == Lower(code)
    IN  IF \/ Contains(code, KwFunction)
           \/ Contains(code, KwConst)
           \/ Contains(code, KwLet) THEN Javascript
        ELSE IF Contains(code, KwDef) /\ Contains(code, KwColon) THEN Python
        ELSE IF \/ Contains(code, KwPublicClass)
                \/ Contains(code, KwPrivate) THEN Java
        ELSE IF Contains(code, KwInclude) THEN Cpp
        ELSE IF Contains(code, KwFunc) /\ Contains(code, KwBrace) THEN Go
        ELSE IF \/ Contains(code_lower, KwHtml)
                \/ Contains(code_lower, KwDoctype) THEN Html
        ELSE IF /\ Contains(code_lower, KwSelect)
                /\ Contains(code_lower, KwFrom) THEN Sql
        ELSE Code

\* LLMService._detect_language
_detect_language(code) ==
    LET code_lower == Lower(code)
    IN  IF Contains(code, KwDef) /\ Contains(code, KwColon) THEN Python
        ELSE IF \/ Contains(code, KwFunction)
                \/ Contains(code, KwConst)
                \/ Contains(code, KwLet) THEN Javascript
        ELSE IF \/ Contains(code, KwPublicClass)
                \/ Contains(code, KwPrivate) THEN Java
        ELSE IF Contains(code, KwInclude) THEN Cpp
        ELSE IF Contains(code, KwFunc) /\ Contains(code, KwBrace) THEN Go
        ELSE IF \/ Contains(code_lower, KwHtml)
                \/ Contains(code_lower, KwDoctype) THEN Html
        ELSE IF /\ Contains(code_lower, KwSelect)
                /\ Contains(code_lower, KwFrom) THEN Sql
        ELSE Code

ArgCode == <<"c", "o", "d", "e">>

ArgLanguage == <<"l", "a", "n", "g", "u", "a", "g", "e">>

\* get_review's language with only a None hint replaced by the detector
PromptLanguageNoneOnly(code, language) ==
    IF language.some THEN language.v ELSE _detect_language(code)

\* the language interpolated into the prompt: the hint, or the detected
\* language when the hint is None or ""
PromptLanguage(code, language) ==
    IF Truthy(language) THEN language.v ELSE _detect_language(code)

\* get_review up to the POST: the prompt sent to the backend
GetReviewPrompt(code, review_type, language) ==
    Format(PromptTemplate(review_type),
           (ArgCode :> code) @@
           (ArgLanguage :> PromptLanguage(code, language)))

\* the JSON body of a POST to /api/generate
GenerateBody(model, prompt) ==
    [model |-> model, prompt |-> prompt, stream |-> FALSE]

\* how a call ends: the value returned or the exception raised
Returned(text) == [exc |-> "none", message |-> << >>, value |-> text]

Raise(exc, message) == [exc |-> exc, message |-> message, value |-> << >>]

\* get_review from the POST on: what it returns or raises for an outcome
GetReviewResult(o) ==
    IF "Timeout" \in o.raised
    THEN Raise("TimeoutError",
               <<"Request timed out. The code might be too long or complex.">>)
    ELSE IF "ConnectionError" \in o.raised
    THEN Raise("ConnectionError", <<"Cannot connect to Ollama. Is it running?">>)
    ELSE IF o.raised # {}
    THEN Raise("Exception", <<"requests exception">>)
    ELSE IF o.status # 200
    THEN Raise("Exception", <<"Ollama returned status ", ToString(o.status)>>)
    ELSE IF o.json = "invalid"
    THEN Raise("Exception", <<"JSONDecodeError">>)
    ELSE IF o.json # "object"
    THEN Raise("Exception", <<"AttributeError: no attribute 'get'">>)
    ELSE Returned(Strip(IF "response" \in DOMAIN o.fields
                        THEN o.fields["response"] ELSE << >>))


-----------------------------------------------------------------------------
(* Responses to the caller *)

NoResponse == [status |-> 0]

\* raise HTTPException(status_code, detail)
HTTPException(status, detail) ==
    [status |-> status, detail |-> detail, via |-> "HTTPException"]

\* FastAPI's answer to a body that fails the request model
ValidationError ==
    [status |-> 422, detail |-> <<"validation error">>,
     via |-> "RequestValidationError"]

\* an exception no handler catches leaves the endpoint: the server answers
\* 500 Internal Server Error
Uncaught(message) ==
    [status |-> 500, detail |-> message, via |-> "uncaught"]

\* process_audio has not run
NoLocals == [transcript |-> << >>, outputs |-> << >>, tmp |-> "none"]

\* the backend accepted the POST and sends nothing
Silent == [raised |-> {"silent"}, status |-> 0, json |-> "none",
           fields |-> NoFields]

\* requests.post(url, json=body, timeout=timeout) and, once it arrived, its
\* outcome
Post(url, body, timeout) ==
    [url |-> url, body |-> body, timeout |-> timeout, answer |-> Pending]

\* requests.post ends with outcome o for the POST in flight: a Timeout is
\* raised only when a timeout was given, and a silent backend lets nothing
\* else happen
Arrives(o) ==
    LET post == posts[Len(posts)]
    IN  /\ "Timeout" \in o.raised => post.timeout.some
        /\ post.answer = Silent => o = ReadTimeout

\* posts with the outcome of the POST in flight recorded
Answered(ps, o) == [ps EXCEPT ![Len(ps)].answer = o]

-----------------------------------------------------------------------------
(* Inputs *)

\* the size ceiling of review_code
MaxCodeLength == 50000

PyDef == <<"d", "e", "f", " ", "f", "(", "x", ")", ":", " ", "r", "e", "t", "u", "r", "n", " ", "x">>

Abc == <<"a", "\n", "b", "\n", "c">>

ShortCodes ==
    {<< >>, <<" ">>, <<"\n", " ", "\t">>, <<"x">>, <<" ", "x", "\n">>,
     PyDef, Abc, <<"{", "c", "o", "d", "e", "}">>, <<"l", "e", "t", " ", "x", " ", "=", " ", "{", "l", "a", "n", "g", "u", "a", "g", "e", "}">>}

\* the lengths at the ceiling and up to MaxOver above it
LongLengths == MaxCodeLength..(MaxCodeLength + MaxOver)

\* code at and above the ceiling: all "x", all blank, and blank but for
\* its last character
LongCodes ==
    {Repeat(c, n) : c \in {"x", " "}, n \in LongLengths}
    \cup {Repeat(" ", n) \o <<"x">> : n \in LongLengths}

Hints == {None, Some(<< >>), Some(<<"g", "o">>), Some(<<"{", "c", "o", "d", "e", "}">>)}

\* the JSON bodies sent to POST /review
ReviewBodies ==
    [code : ShortCodes, review_type : ReviewType \cup {Absent, "style"},
     language : Hints]
    \cup [code : LongCodes, review_type : {Absent}, language : {None}]

\* the code given to get_review when it is called directly
UnitCodes == {<<"x">>, PyDef, <<"{", "c", "o", "d", "e", "}">>, <<"a", "{", "l", "a", "n", "g", "u", "a", "g", "e", "}", "{">>}

\* the pieces code strings are built from: the detector's markers, whole
\* and in part, in lower and upper case
Fragments ==
    {KwDef, KwColon, KwLet, KwPrivate, KwInclude, KwFunc, KwBrace, KwFrom,
     <<"<", "H", "T", "M", "L">>, <<"S", "E", "L", "E", "C", "T", " ">>, <<"x">>, <<"\n">>}

\* the code strings built from at most n fragments
RECURSIVE FragmentStrings(_)
FragmentStrings(n) ==
    IF n = 0 THEN {<< >>}
    ELSE LET shorter == FragmentStrings(n - 1)
         IN  shorter \cup {s \o f : s \in shorter, f \in Fragments}

-----------------------------------------------------------------------------
(* Code review: backend/main.py *)

\* the stats computed over the stripped code
CodeStatsStripped(code) ==
    [lines |-> CountNewlines(Strip(code)) + 1,
     characters |-> Len(Strip(code)),
     words |-> CountWords(Strip(code))]

\* review_code: lines, characters and words of request.code
CodeStats(code) ==
    [lines |-> CountNewlines(code) + 1,
     characters |-> Len(code),
     words |-> CountWords(code)]

\* review_code after get_review returned or raised
ReviewResponse(req, result) ==
    CASE result.exc = "none" ->
             [status |-> 200, review |-> result.value,
              review_type |-> req.review_type, stats |-> CodeStats(req.code)]
      [] result.exc = "ConnectionError" ->
             HTTPException(503,
                 <<"Cannot connect to Ollama. Please ensure it is running.">>)
      [] result.exc = "TimeoutError" ->
             HTTPException(503, <<"Request timed out. Try with shorter code.">>)
      [] OTHER ->
             HTTPException(500, <<"An error occurred: ">> \o result.message)

\* the size check of review_code, made on the stripped code
CodeTooLongStripped(code) == Len(Strip(code)) > MaxCodeLength

\* the size check of review_code, rejecting the ceiling itself
CodeTooLongInclusive(code) == Len(code) >= MaxCodeLength

\* the size check of review_code: len(request.code) > 50000
CodeTooLong(code) == Len(code) > MaxCodeLength

\* POST /review up to the call of the backend
review_code(body) ==
    /\ pc = "idle"
    /\ UNCHANGED <<config, parked, history, batch>>
    /\ UNCHANGED <<locals, tmp_files>>
    /\ svc' = "review_code"
    /\ request' = body
    /\ IF ~CodeReviewRequestValid(body)
       THEN /\ response' = ValidationError
            /\ posts' = << >>
            /\ pc' = "done"
       ELSE LET req == CodeReviewRequest(body)
            IN  IF Len(Strip(req.code)) = 0
                THEN /\ response' = HTTPException(400, <<"Code cannot be empty">>)
                     /\ posts' = << >>
                     /\ pc' = "done"
                ELSE IF CodeTooLong(req.code)
                THEN /\ response' = HTTPException(400,
                         <<"Code too long. Maximum 50,000 characters allowed.">>)
                     /\ posts' = << >>
                     /\ pc' = "done"
                ELSE /\ posts' = <<Post(<<config.review.ollama_url>>,
                         GenerateBody(config.review.model_name,
                             GetReviewPrompt(req.code, req.review_type,
                                             req.language)),
                         Some(config.review.request_timeout))>>
                     /\ response' = NoResponse
                     /\ pc' = "calling"

\* POST /review from the answer of the backend on
review_code_return(o) ==
    /\ svc = "review_code"
    /\ pc = "calling"
    /\ Arrives(o)
    /\ UNCHANGED <<config, parked, history, batch>>
    /\ posts' = Answered(posts, o)
    /\ response' = ReviewResponse(CodeReviewRequest(request), GetReviewResult(o))
    /\ pc' = "done"
    /\ UNCHANGED <<svc, request, locals, tmp_files>>

-----------------------------------------------------------------------------
(* Medical notes: backend/main.py *)

OLLAMA_HOST == "http://localhost:11434"

DEFAULT_MODEL == "llama2"

\* the timeout of the POST of query_llama, in seconds
QueryLlamaTimeout == 120

\* the dict query_llama returns for a failure
ErrorDict(message) ==
    [json |-> "object", fields |-> [k \in {"error"} |-> message]]

\* query_llama from the POST on: the value it returns for an outcome
query_llama(o, model) ==
    IF "ConnectionError" \in o.raised
    THEN ErrorDict(<<"Cannot connect to Ollama. Please ensure Ollama is running on port 11434.">>)
    ELSE IF "Timeout" \in o.raised
    THEN ErrorDict(<<"Request timed out. The model is taking too long to respond.">>)
    ELSE IF o.raised # {}
    THEN ErrorDict(<<"Ollama Error: ", "requests exception">>)
    ELSE IF o.status = 404
    THEN ErrorDict(<<"Model '", model, "' not found.">>)
    ELSE IF RaisesForStatus(o)
    THEN ErrorDict(<<"Ollama Error: ", ToString(o.status), " Error">>)
    ELSE IF o.json = "invalid"
    THEN ErrorDict(<<"Ollama Error: ", "JSONDecodeError">>)
    ELSE [json |-> o.json, fields |-> o.fields]

\* the prompt extract_medical_info builds around the note
ExtractPrompt(note) ==
    <<"You are a medical information extraction assistant. ... Doctor's Note:\n">>
    \o note \o <<"\n", "\n", "JSON Output:">>

\* extract_medical_info after query_llama returned
ExtractResponse(req, result) ==
    IF result.json # "object"
    THEN Uncaught(<<"AttributeError: 'list' object has no attribute 'get'">>)
    ELSE IF "error" \in DOMAIN result.fields
    THEN HTTPException(500, result.fields["error"])
    ELSE [status |-> 200,
          structured |-> Strip(IF "response" \in DOMAIN result.fields
                               THEN result.fields["response"] ELSE TextJson),
          model_used |-> req.model,
          note_length |-> Len(req.note)]

\* extract_medical_info with the model of the request kept as the default
\* of the module
extract_medical_info_sets_default(note, model) ==
    /\ pc = "idle"
    /\ UNCHANGED <<parked, history, batch>>
    /\ config' = [config EXCEPT !.medical.DEFAULT_MODEL =
                     IF model = Absent THEN @ ELSE model]
    /\ UNCHANGED <<locals, tmp_files>>
    /\ svc' = "extract_medical_info"
    /\ request' = [note |-> note,
                   model |-> IF model = Absent THEN config.medical.DEFAULT_MODEL
                             ELSE model]
    /\ IF Len(note) = 0 \/ Len(Strip(note)) = 0
       THEN /\ response' = HTTPException(400, <<"Note cannot be empty">>)
            /\ posts' = << >>
            /\ pc' = "done"
       ELSE /\ posts' = <<Post(<<config.medical.OLLAMA_HOST, "/api/generate">>,
                   GenerateBody(
                       IF model = Absent THEN config.medical.DEFAULT_MODEL
                       ELSE model,
                       ExtractPrompt(note)),
                   Some(QueryLlamaTimeout))>>
            /\ response' = NoResponse
            /\ pc' = "calling"

\* POST /extract/ up to the call of the backend
extract_medical_info(note, model) ==
    /\ pc = "idle"
    /\ UNCHANGED <<config, parked, history, batch>>
    /\ UNCHANGED <<locals, tmp_files>>
    /\ svc' = "extract_medical_info"
    /\ request' = [note |-> note,
                   model |-> IF model = Absent THEN config.medical.DEFAULT_MODEL
                             ELSE model]
    /\ IF Len(note) = 0 \/ Len(Strip(note)) = 0
       THEN /\ response' = HTTPException(400, <<"Note cannot be empty">>)
            /\ posts' = << >>
            /\ pc' = "done"
       ELSE /\ posts' = <<Post(<<config.medical.OLLAMA_HOST, "/api/generate">>,
                   GenerateBody(
                       IF model = Absent THEN config.medical.DEFAULT_MODEL
                       ELSE model,
                       ExtractPrompt(note)),
                   Some(QueryLlamaTimeout))>>
            /\ response' = NoResponse
            /\ pc' = "calling"

\* POST /extract/ from the answer of the backend on
extract_medical_info_return(o) ==
    /\ svc = "extract_medical_info"
    /\ pc = "calling"
    /\ Arrives(o)
    /\ UNCHANGED <<config, parked, history, batch>>
    /\ posts' = Answered(posts, o)
    /\ response' = ExtractResponse(request, query_llama(o, request.model))
    /\ pc' = "done"
    /\ UNCHANGED <<svc, request, locals, tmp_files>>

Notes ==
    {<< >>, <<" ">>, <<"\n", "\t">>, <<"x">>, <<" ", "f", "e", "v", "e", "r", " ", "\n">>,
     <<"{", "n", "o", "t", "e", "}">>}

-----------------------------------------------------------------------------
(* Image caption: backend/config.py, backend/services.py, backend/main.py *)

OLLAMA_API_URL == "http://localhost:11434/api/generate"

MODEL_NAME == "llava"

\* the timeout of the POST of generate_caption, in seconds
GenerateCaptionTimeout == 300

prompt_templates ==
    [tone \in {"Standard", "Professional", "Funny", "Creative", "Social Media"} |->
        CASE tone = "Standard" -> "Describe this image in one detailed sentence."
          [] tone = "Professional" ->
               "Provide a professional, objective description of the image content suitable for a business context."
          [] tone = "Funny" -> "Write a humorous and witty caption for this image."
          [] tone = "Creative" ->
               "Write a creative, poetic, or storytelling caption for this image."
          [] tone = "Social Media" ->
               "Write an engaging social media caption for this image that would get many likes."]

\* prompt_templates.get(tone, prompt_templates["Standard"])
ToneTemplateNoDefault(tone) ==
    IF tone \in DOMAIN prompt_templates THEN <<prompt_templates[tone]>>
    ELSE << >>

ToneTemplate(tone) ==
    IF tone \in DOMAIN prompt_templates THEN <<prompt_templates[tone]>>
    ELSE <<prompt_templates["Standard"]>>

HashtagInstruction ==
    " Also generate 5 to 10 relevant and trending hashtags at the end of the caption."

\* the prompt with the hashtag instruction added to the tone templates only
CaptionPromptTemplateOnly(tone, include_hashtags, custom_prompt) ==
    IF Truthy(custom_prompt) THEN custom_prompt.v
    ELSE IF include_hashtags THEN ToneTemplate(tone) \o <<HashtagInstruction>>
    ELSE ToneTemplate(tone)

\* generate_caption up to the POST: the prompt sent to the backend
CaptionPrompt(tone, include_hashtags, custom_prompt) ==
    LET prompt == IF Truthy(custom_prompt) THEN custom_prompt.v
                  ELSE ToneTemplate(tone)
    IN  IF include_hashtags THEN prompt \o <<HashtagInstruction>> ELSE prompt

\* the JSON body generate_caption POSTs
CaptionBody(image_base64, prompt) ==
    [model |-> config.caption.MODEL_NAME, prompt |-> prompt, images |-> <<image_base64>>,
     stream |-> FALSE]

ErrorCommunicating ==
    "Error: Failed to generate caption. Is Ollama running? Details: "

ErrorUnexpected == "Error: An unexpected error occurred."

\* generate_caption from the POST on: the string it returns for an outcome
generate_caption(o) ==
    IF o.raised # {}
    THEN <<ErrorCommunicating, "requests exception">>
    ELSE IF RaisesForStatus(o)
    THEN <<ErrorCommunicating, ToString(o.status), " Error">>
    ELSE IF o.json = "invalid"
    THEN <<ErrorCommunicating, "JSONDecodeError">>
    ELSE IF o.json # "object"
    THEN <<ErrorUnexpected>>
    ELSE Strip(IF "response" \in DOMAIN o.fields
               THEN o.fields["response"] ELSE << >>)

\* POST /caption/ up to the call of the backend
caption_image(file, tone, include_hashtags, custom_prompt) ==
    /\ pc = "idle"
    /\ UNCHANGED <<config, parked, history, batch>>
    /\ UNCHANGED <<locals, tmp_files>>
    /\ svc' = "caption_image"
    /\ request' = [file |-> file, tone |-> tone,
                   include_hashtags |-> include_hashtags,
                   custom_prompt |-> custom_prompt]
    /\ posts' = <<Post(<<config.caption.OLLAMA_API_URL>>,
                      CaptionBody(b64encode(file),
                          CaptionPrompt(tone, include_hashtags, custom_prompt)),
                      Some(GenerateCaptionTimeout))>>
    /\ response' = NoResponse
    /\ pc' = "calling"

\* POST /caption/ from the answer of the backend on
caption_image_return(o) ==
    /\ svc = "caption_image"
    /\ pc = "calling"
    /\ Arrives(o)
    /\ UNCHANGED <<config, parked, history, batch>>
    /\ posts' = Answered(posts, o)
    /\ response' = [status |-> 200, caption |-> generate_caption(o)]
    /\ pc' = "done"
    /\ UNCHANGED <<svc, request, locals, tmp_files>>

\* uploaded image files, as bytes
Images == {<< >>, <<77>>, <<77, 97>>, <<77, 97, 110, 255>>}

Tones == DOMAIN prompt_templates \cup {"Sarcastic", ""}

CustomPrompts == {None, Some(<< >>), Some(<<"s", "a", "y", " ", "{", "c", "o", "d", "e", "}">>)}

-----------------------------------------------------------------------------
(* Meeting notes: backend/main.py *)

OLLAMA_MODEL == "llama2"

\* the timeout of the POST of call_ollama, in seconds
CallOllamaTimeout == 120

\* what a call, here call_ollama, ends with: a value or an HTTPException
Ok(text) == [ok |-> TRUE, value |-> text, error |-> NoResponse]

Failed(error) == [ok |-> FALSE, value |-> << >>, error |-> error]

\* call_ollama from the POST on, with the Timeout handler tried first
call_ollama_timeout_first(o) ==
    IF "Timeout" \in o.raised
    THEN Failed(HTTPException(504,
             <<"Request to Ollama timed out. Please try again.">>))
    ELSE IF "ConnectionError" \in o.raised
    THEN Failed(HTTPException(503,
             <<"Ollama service is not available. Please ensure Ollama is running.">>))
    ELSE Failed(HTTPException(500, <<"Error calling Ollama: ">>))

\* call_ollama from the POST on: the text returned or the HTTPException
\* raised for an outcome
call_ollama(o) ==
    IF "ConnectionError" \in o.raised
    THEN Failed(HTTPException(503,
             <<"Ollama service is not available. Please ensure Ollama is running.">>))
    ELSE IF "Timeout" \in o.raised
    THEN Failed(HTTPException(504,
             <<"Request to Ollama timed out. Please try again.">>))
    ELSE IF o.raised # {}
    THEN Failed(HTTPException(500,
             <<"Error calling Ollama: ", "requests exception">>))
    ELSE IF RaisesForStatus(o)
    THEN Failed(HTTPException(500,
             <<"Error calling Ollama: ", ToString(o.status), " Error">>))
    ELSE IF o.json = "invalid"
    THEN Failed(HTTPException(500,
             <<"Error calling Ollama: ", "JSONDecodeError">>))
    ELSE IF o.json # "object"
    THEN Failed(HTTPException(500, <<"Error calling Ollama: ", "TypeError">>))
    ELSE IF "response" \notin DOMAIN o.fields
    THEN Failed(HTTPException(500,
             <<"Error calling Ollama: ", "'response'">>))
    ELSE Ok(Strip(o.fields["response"]))

\* the prompts of process_audio with the key topics asked for before the
\* action items
MeetingPromptTopicsSecond(k, transcript) ==
    CASE k = 1 ->
             <<"You are a professional meeting assistant. Summarize ... Transcript:\n">>
             \o transcript \o <<"\n", "\n", "Summary:">>
      [] k = 2 ->
             <<"You are a professional meeting assistant. Identify the main topics ... Transcript:\n">>
             \o transcript \o <<"\n", "\n", "Key Topics:">>
      [] k = 3 ->
             <<"You are a professional meeting assistant. Extract all action items ... Transcript:\n">>
             \o transcript \o <<"\n", "\n", "Action Items:">>

\* the prompts of the three calls, in the order process_audio makes them
MeetingPrompt(k, transcript) ==
    CASE k = 1 ->
             <<"You are a professional meeting assistant. Summarize ... Transcript:\n">>
             \o transcript \o <<"\n", "\n", "Summary:">>
      [] k = 2 ->
             <<"You are a professional meeting assistant. Extract all action items ... Transcript:\n">>
             \o transcript \o <<"\n", "\n", "Action Items:">>
      [] k = 3 ->
             <<"You are a professional meeting assistant. Identify the main topics ... Transcript:\n">>
             \o transcript \o <<"\n", "\n", "Key Topics:">>

\* the calls process_audio makes for one request
MeetingCalls == 3

\* index of the last "." of s, 0 when there is none
RECURSIVE LastDot(_, _)
LastDot(s, i) ==
    IF i = 0 THEN 0
    ELSE IF s[i] = "." THEN i
    ELSE LastDot(s, i - 1)

\* filename.lower().split('.')[-1]
FileExtension(filename) ==
    LET name == Lower(filename)
    IN  SubSeq(name, LastDot(name, Len(name)) + 1, Len(name))

\* the accepted extensions with txt among them
SupportedFormatsWithTxt ==
    {<<"m", "p", "3">>, <<"w", "a", "v">>, <<"m", "4", "a">>, <<"f", "l", "a", "c">>, <<"o", "g", "g">>, <<"t", "x", "t">>}

SupportedFormats ==
    {<<"m", "p", "3">>, <<"w", "a", "v">>, <<"m", "4", "a">>, <<"f", "l", "a", "c">>, <<"o", "g", "g">>}

NoSuchFile == "No such file or directory"

\* a transcription failure reported the way call_ollama reports an error
TranscriptionAsBackendError(ffmpeg, tr) ==
    HTTPException(500, <<"Error calling Ollama: ">> \o tr.text)

\* the HTTPException process_audio raises when ffmpeg is missing or
\* model.transcribe raised
TranscriptionUnavailable(ffmpeg, tr) ==
    IF ~ffmpeg
    THEN HTTPException(500,
             <<"FFmpeg is not installed or not found in system PATH.">>)
    ELSE IF tr.text = <<NoSuchFile>>
    THEN HTTPException(500, <<"FFmpeg not found.">>)
    ELSE HTTPException(500, <<"Failed to transcribe audio: ">> \o tr.text)

\* process_audio's handler for an HTTPException raised in its try block,
\* were it to wrap the exception like any other
RewrappedAsUnexpected(error) ==
    HTTPException(500, <<"An unexpected error occurred: ">> \o error.detail)

\* process_audio's handler for an HTTPException raised in its try block:
\* except HTTPException: raise
Reraise(error) == error

\* process_audio's handler for any other exception raised in its try block
Unexpected(message) ==
    HTTPException(500, <<"An unexpected error occurred: ">> \o message)

\* POST /process/ up to the first call of the backend.  stored: whether
\* the upload could be written to the temporary file; ffmpeg: whether
\* shutil.which finds it; tr: how model.transcribe ends
process_audio(filename, stored, ffmpeg, tr) ==
    /\ pc = "idle"
    /\ UNCHANGED <<config, parked, history, batch>>
    /\ tmp_files < MaxTmpFiles
    /\ svc' = "process_audio"
    /\ request' = [filename |-> filename, stored |-> stored,
                   ffmpeg |-> ffmpeg, tr |-> tr]
    /\ IF Len(filename) = 0
       THEN /\ response' = HTTPException(400, <<"No file provided">>)
            /\ posts' = << >>
            /\ pc' = "done"
            /\ UNCHANGED <<locals, tmp_files>>
       ELSE IF FileExtension(filename) \notin SupportedFormats
       THEN /\ response' = HTTPException(400,
                <<"Unsupported file format: ">> \o FileExtension(filename))
            /\ posts' = << >>
            /\ pc' = "done"
            /\ UNCHANGED <<locals, tmp_files>>
       ELSE IF ~stored
       THEN \* the file was created with delete=False and is not unlinked
            /\ response' = Unexpected(<<"OSError">>)
            /\ posts' = << >>
            /\ pc' = "done"
            /\ locals' = [NoLocals EXCEPT !.tmp = "exists"]
            /\ tmp_files' = tmp_files + 1
       ELSE IF ~ffmpeg
       THEN \* raised before the try whose finally unlinks the file
            /\ response' = Reraise(TranscriptionUnavailable(ffmpeg, tr))
            /\ posts' = << >>
            /\ pc' = "done"
            /\ locals' = [NoLocals EXCEPT !.tmp = "exists"]
            /\ tmp_files' = tmp_files + 1
       ELSE IF ~tr.ok
       THEN /\ response' = Reraise(TranscriptionUnavailable(ffmpeg, tr))
            /\ posts' = << >>
            /\ pc' = "done"
            /\ locals' = [NoLocals EXCEPT !.tmp = "deleted"]
            /\ UNCHANGED tmp_files
       ELSE IF Len(Strip(tr.text)) = 0
       THEN /\ response' = Reraise(HTTPException(400,
                <<"No speech detected in the audio file">>))
            /\ posts' = << >>
            /\ pc' = "done"
            /\ locals' = [NoLocals EXCEPT !.tmp = "deleted"]
            /\ UNCHANGED tmp_files
       ELSE /\ posts' = <<Post(<<config.meeting.OLLAMA_HOST, "/api/generate">>,
                   GenerateBody(config.meeting.OLLAMA_MODEL,
                       MeetingPrompt(1, Strip(tr.text))),
                   Some(CallOllamaTimeout))>>
            /\ response' = NoResponse
            /\ pc' = "calling"
            /\ locals' = [transcript |-> Strip(tr.text), outputs |-> << >>,
                          tmp |-> "deleted"]
            /\ UNCHANGED tmp_files

\* process_audio_return with a failed call made again
process_audio_return_retry(o) ==
    /\ svc = "process_audio"
    /\ pc = "calling"
    /\ Arrives(o)
    /\ UNCHANGED <<config, parked, history, batch>>
    /\ LET result == call_ollama(o)
           outputs == Append(locals.outputs, result.value)
       IN  IF ~result.ok /\ Len(posts) < MeetingCalls
           THEN /\ posts' = Append(Answered(posts, o),
                       Post(posts[Len(posts)].url, posts[Len(posts)].body,
                            Some(CallOllamaTimeout)))
                /\ UNCHANGED <<response, pc, locals>>
           ELSE IF ~result.ok
           THEN /\ posts' = Answered(posts, o)
                /\ response' = result.error
                /\ pc' = "done"
                /\ UNCHANGED locals
           ELSE /\ posts' = Answered(posts, o)
                /\ locals' = [locals EXCEPT !.outputs = outputs]
                /\ response' = [status |-> 200,
                                transcript |-> locals.transcript]
                /\ pc' = "done"
    /\ UNCHANGED <<svc, request, tmp_files>>

\* process_audio_return with the results at hand put into the failure
process_audio_return_partial(o) ==
    /\ svc = "process_audio"
    /\ pc = "calling"
    /\ Arrives(o)
    /\ UNCHANGED <<config, parked, history, batch>>
    /\ LET result == call_ollama(o)
           outputs == Append(locals.outputs, result.value)
       IN  IF ~result.ok
           THEN /\ posts' = Answered(posts, o)
                /\ response' = [status |-> result.error.status,
                                detail |-> result.error.detail,
                                via |-> "HTTPException",
                                transcript |-> locals.transcript]
                /\ pc' = "done"
                /\ UNCHANGED locals
           ELSE IF Len(posts) < MeetingCalls
           THEN /\ posts' = Append(Answered(posts, o),
                       Post(<<config.meeting.OLLAMA_HOST, "/api/generate">>,
                           GenerateBody(config.meeting.OLLAMA_MODEL,
                               MeetingPrompt(Len(posts) + 1, locals.transcript)),
                           Some(CallOllamaTimeout)))
                /\ locals' = [locals EXCEPT !.outputs = outputs]
                /\ UNCHANGED <<response, pc>>
           ELSE /\ posts' = Answered(posts, o)
                /\ locals' = [locals EXCEPT !.outputs = outputs]
                /\ response' = [status |-> 200,
                                transcript |-> locals.transcript,
                                summary |-> outputs[1],
                                action_items |-> outputs[2],
                                key_topics |-> outputs[3],
                                word_count |-> CountWords(locals.transcript)]
                /\ pc' = "done"
    /\ UNCHANGED <<svc, request, tmp_files>>

\* POST /process/ from an answer of the backend on: the HTTPException of
\* call_ollama passes through, a text is kept and the next call made, and
\* after the last call the notes are returned
process_audio_return(o) ==
    /\ svc = "process_audio"
    /\ pc = "calling"
    /\ Arrives(o)
    /\ UNCHANGED <<config, parked, history, batch>>
    /\ LET result == call_ollama(o)
           outputs == Append(locals.outputs, result.value)
       IN  IF ~result.ok
           THEN /\ posts' = Answered(posts, o)
                /\ response' = Reraise(result.error)
                /\ pc' = "done"
                /\ UNCHANGED locals
           ELSE IF Len(posts) < MeetingCalls
           THEN /\ posts' = Append(Answered(posts, o),
                       Post(<<config.meeting.OLLAMA_HOST, "/api/generate">>,
                           GenerateBody(config.meeting.OLLAMA_MODEL,
                               MeetingPrompt(Len(posts) + 1, locals.transcript)),
                           Some(CallOllamaTimeout)))
                /\ locals' = [locals EXCEPT !.outputs = outputs]
                /\ UNCHANGED <<response, pc>>
           ELSE /\ posts' = Answered(posts, o)
                /\ locals' = [locals EXCEPT !.outputs = outputs]
                /\ response' = [status |-> 200,
                                transcript |-> locals.transcript,
                                summary |-> outputs[1],
                                action_items |-> outputs[2],
                                key_topics |-> outputs[3],
                                word_count |-> CountWords(locals.transcript)]
                /\ pc' = "done"
    /\ UNCHANGED <<svc, request, tmp_files>>

Filenames ==
    {<< >>, <<"a", ".", "m", "p", "3">>, <<"A", ".", "W", "A", "V">>, <<"m", "p", "3">>, <<"n", "o", "t", "e", "s", ".", "t", "x", "t">>, <<"a", ".", "m", "p", "3", ".", "e", "x", "e">>}

\* how model.transcribe(tmp_path) ends: the text found, or the message of
\* the exception raised
TranscribeOutcomes ==
    {[ok |-> TRUE, text |-> <<" ", "h", "i", " ", "a", "l", "l", "\n">>],
     [ok |-> TRUE, text |-> <<" ">>],
     [ok |-> FALSE, text |-> <<NoSuchFile>>],
     [ok |-> FALSE, text |-> <<"unsupported codec">>]}

-----------------------------------------------------------------------------
(* Meeting notes, first version: V1/backend/main.py *)

V1_URL == "http://localhost:11434/api/generate"

V1_MODEL == "llama2"

\* V1 call_ollama from the POST on: there is no try, every exception leaves
\* the function and the endpoint
v1_call_ollama(o) ==
    IF o.raised # {}
    THEN Failed(Uncaught(<<"requests exception">>))
    ELSE IF o.json = "invalid"
    THEN Failed(Uncaught(<<"JSONDecodeError">>))
    ELSE IF o.json # "object"
    THEN Failed(Uncaught(<<"TypeError">>))
    ELSE IF "response" \notin DOMAIN o.fields
    THEN Failed(Uncaught(<<"KeyError: 'response'">>))
    ELSE Ok(Strip(o.fields["response"]))

\* the prompts of the two calls, in the order V1 process_audio makes them
V1Prompt(k, transcript) ==
    CASE k = 1 ->
             <<"Summarize the following meeting transcript:\n\n">> \o transcript
      [] k = 2 ->
             <<"List the key action items from this meeting:\n\n">> \o transcript

\* the calls V1 process_audio makes for one request
V1Calls == 2

\* V1 POST /process/ up to the first call of the backend; the temporary file
\* is written and never removed.  tr: how model.transcribe ends
v1_process_audio(tr) ==
    /\ pc = "idle"
    /\ UNCHANGED <<config, parked, history, batch>>
    /\ tmp_files < MaxTmpFiles
    /\ svc' = "v1_process_audio"
    /\ request' = [tr |-> tr]
    /\ tmp_files' = tmp_files + 1
    /\ IF ~tr.ok
       THEN /\ response' = Uncaught(tr.text)
            /\ posts' = << >>
            /\ pc' = "done"
            /\ locals' = [NoLocals EXCEPT !.tmp = "exists"]
       ELSE /\ posts' = <<Post(<<V1_URL>>,
                               GenerateBody(V1_MODEL, V1Prompt(1, tr.text)),
                               None)>>
            /\ response' = NoResponse
            /\ pc' = "calling"
            /\ locals' = [transcript |-> tr.text, outputs |-> << >>,
                          tmp |-> "exists"]

\* V1 POST /process/ from an answer of the backend on
v1_process_audio_return(o) ==
    /\ svc = "v1_process_audio"
    /\ pc = "calling"
    /\ Arrives(o)
    /\ UNCHANGED <<config, parked, history, batch>>
    /\ LET result == v1_call_ollama(o)
           outputs == Append(locals.outputs, result.value)
       IN  IF ~result.ok
           THEN /\ posts' = Answered(posts, o)
                /\ response' = result.error
                /\ pc' = "done"
                /\ UNCHANGED locals
           ELSE IF Len(posts) < V1Calls
           THEN /\ posts' = Append(Answered(posts, o),
                       Post(<<V1_URL>>,
                            GenerateBody(V1_MODEL,
                                V1Prompt(Len(posts) + 1, locals.transcript)),
                            None))
                /\ locals' = [locals EXCEPT !.outputs = outputs]
                /\ UNCHANGED <<response, pc>>
           ELSE /\ posts' = Answered(posts, o)
                /\ locals' = [locals EXCEPT !.outputs = outputs]
                /\ response' = [status |-> 200,
                                transcript |-> Strip(locals.transcript),
                                summary |-> outputs[1],
                                action_items |-> outputs[2]]
                /\ pc' = "done"
    /\ UNCHANGED <<svc, request, tmp_files>>

-----------------------------------------------------------------------------
(* Health probes: GET /api/tags *)

\* the answers of the backend to GET /api/tags
TagsAnswers ==
    {Answer(200, "object", [k \in {"models"} |-> << >>]),
     Answer(200, "object", NoFields),
     Answer(200, "array", NoFields),
     Answer(200, "invalid", NoFields),
     Answer(404, "invalid", NoFields),
     Answer(500, "object", [k \in {"error"} |-> TextOk])}

GetOutcomes == TransportFailures \cup TagsAnswers

\* LLMService.check_connection with the status not looked at
check_connection_any_status(o) == o.raised = {}

\* LLMService.check_connection
check_connection(o) ==
    IF o.raised # {} THEN FALSE ELSE o.status = 200

\* code review GET /health
review_health_check(o) ==
    /\ pc = "idle"
    /\ UNCHANGED <<config, parked, history, batch>>
    /\ svc' = "review_health_check"
    /\ request' = [probe |-> o]
    /\ posts' = << >>
    /\ response' = [status |-> 200,
                    ollama_status |-> IF check_connection(o)
                                      THEN <<"connected">>
                                      ELSE <<"disconnected">>,
                    model |-> config.review.model_name]
    /\ pc' = "done"
    /\ UNCHANGED <<locals, tmp_files>>

\* meeting notes GET /health: the ollama_status it reports
meeting_ollama_status(o) ==
    IF "ConnectionError" \in o.raised THEN <<"disconnected">>
    ELSE IF o.raised # {} THEN <<"error">>
    ELSE IF o.status = 200 THEN <<"connected">>
    ELSE <<"error">>

\* meeting notes GET /health
meeting_health_check(o) ==
    /\ pc = "idle"
    /\ UNCHANGED <<config, parked, history, batch>>
    /\ svc' = "meeting_health_check"
    /\ request' = [probe |-> o]
    /\ posts' = << >>
    /\ response' = [status |-> 200,
                    ollama_status |-> meeting_ollama_status(o),
                    model |-> config.meeting.OLLAMA_MODEL]
    /\ pc' = "done"
    /\ UNCHANGED <<locals, tmp_files>>

\* medical notes check_ollama_status: the status it reports
check_ollama_status(o) ==
    IF "ConnectionError" \in o.raised THEN <<"disconnected">>
    ELSE IF o.raised # {} THEN <<"error: ", "requests exception">>
    ELSE IF o.status # 200 THEN <<"error">>
    ELSE IF o.json = "invalid" THEN <<"error: ", "JSONDecodeError">>
    ELSE IF o.json # "object" THEN <<"error: ", "AttributeError">>
    ELSE <<"connected">>

\* medical notes GET /health
medical_health_check(o) ==
    /\ pc = "idle"
    /\ UNCHANGED <<config, parked, history, batch>>
    /\ svc' = "medical_health_check"
    /\ request' = [probe |-> o]
    /\ posts' = << >>
    /\ response' = [status |-> 200,
                    ollama_status |-> check_ollama_status(o),
                    model |-> config.medical.DEFAULT_MODEL]
    /\ pc' = "done"
    /\ UNCHANGED <<locals, tmp_files>>

-----------------------------------------------------------------------------
(* Direct calls of the LLMService methods *)

\* llm_service.get_review(code, review_type, language) up to the POST
get_review(code, review_type, language) ==
    /\ pc = "idle"
    /\ UNCHANGED <<config, parked, history, batch>>
    /\ UNCHANGED <<locals, tmp_files>>
    /\ svc' = "get_review"
    /\ request' = [code |-> code, review_type |-> review_type,
                   language |-> language]
    /\ posts' = <<Post(<<config.review.ollama_url>>,
                      GenerateBody(config.review.model_name,
                          GetReviewPrompt(code, review_type, language)),
                      Some(config.review.request_timeout))>>
    /\ response' = NoResponse
    /\ pc' = "calling"

\* llm_service.get_review from the answer of the backend on
get_review_return(o) ==
    /\ svc = "get_review"
    /\ pc = "calling"
    /\ Arrives(o)
    /\ UNCHANGED <<config, parked, history, batch>>
    /\ posts' = Answered(posts, o)
    /\ response' = GetReviewResult(o)
    /\ pc' = "done"
    /\ UNCHANGED <<svc, request, locals, tmp_files>>

\* llm_service._detect_language(code)
detect_language(code) ==
    /\ pc = "idle"
    /\ UNCHANGED <<config, parked, history, batch>>
    /\ UNCHANGED <<locals, tmp_files>>
    /\ svc' = "_detect_language"
    /\ request' = [code |-> code]
    /\ posts' = << >>
    /\ response' = Returned(_detect_language(code))
    /\ pc' = "done"

-----------------------------------------------------------------------------
(* Configuration and concurrent invocations *)

\* the configuration as the modules establish it when the process starts
Configuration ==
    [review |-> [ollama_url |-> ollama_url, model_name |-> model_name,
                 request_timeout |-> request_timeout,
                 REVIEW_PROMPTS |-> REVIEW_PROMPTS],
     medical |-> [OLLAMA_HOST |-> OLLAMA_HOST, DEFAULT_MODEL |-> DEFAULT_MODEL],
     caption |-> [OLLAMA_API_URL |-> OLLAMA_API_URL, MODEL_NAME |-> MODEL_NAME],
     meeting |-> [OLLAMA_HOST |-> OLLAMA_HOST, OLLAMA_MODEL |-> OLLAMA_MODEL]]

\* the invocation that is running: its endpoint, position and local data
Context ==
    [svc |-> svc, pc |-> pc, request |-> request, posts |-> posts,
     response |-> response, locals |-> locals]

\* a worker that serves no request
IdleContext ==
    [svc |-> "none", pc |-> "idle", request |-> [code |-> << >>],
     posts |-> << >>, response |-> NoResponse, locals |-> NoLocals]

\* the server suspends the running invocation and resumes invocation w
switch(w) ==
    /\ parked[w] # Context
    /\ parked' = [parked EXCEPT ![w] = Context]
    /\ svc' = parked[w].svc
    /\ pc' = parked[w].pc
    /\ request' = parked[w].request
    /\ posts' = parked[w].posts
    /\ response' = parked[w].response
    /\ locals' = parked[w].locals
    /\ UNCHANGED <<config, tmp_files, history, batch>>

\* the backend goes silent on the POST in flight
backend_silent ==
    /\ pc = "calling"
    /\ posts[Len(posts)].answer = Pending
    /\ posts' = Answered(posts, Silent)
    /\ UNCHANGED <<config, parked, svc, pc, request, response, locals, tmp_files,
                   history, batch>>

-----------------------------------------------------------------------------
(* Code review frontend: frontend/app.py *)

\* the entries add_to_history keeps
HistoryLimit == 10

\* the characters of the code shown in a history entry
PreviewLength == 50

\* "code[:50] + '...' if len(code) > 50 else code"
CodePreview(code) ==
    IF Len(code) > PreviewLength
    THEN SubSeq(code, 1, PreviewLength) \o <<".", ".", ".">>
    ELSE code

\* the entry add_to_history makes; now is the time of day read from the
\* clock, in seconds
HistoryEntry(now, code, review, review_type, stats, response_time) ==
    [timestamp |-> now, code_preview |-> CodePreview(code), review |-> review,
     review_type |-> review_type, stats |-> stats,
     response_time |-> response_time]

\* history.insert(0, entry)
InsertFirst(list, entry) == <<entry>> \o list

\* history[-10:]
KeepLast(list) ==
    SubSeq(list, IF Len(list) > HistoryLimit THEN Len(list) - HistoryLimit + 1
                 ELSE 1, Len(list))

\* history[:10]
KeepFirst(list) ==
    SubSeq(list, 1, IF Len(list) > HistoryLimit THEN HistoryLimit ELSE Len(list))

\* the time of the newest entry, 0 for no entry
LatestTime == IF history = << >> THEN 0 ELSE history[1].timestamp

\* add_to_history(code, review, review_type, stats, response_time), called
\* at time now
add_to_history(now, code, review, review_type, stats, response_time) ==
    /\ pc = "idle"
    /\ now > LatestTime
    /\ svc' = "add_to_history"
    /\ request' = [now |-> now, code |-> code, review |-> review,
                   review_type |-> review_type, stats |-> stats,
                   response_time |-> response_time]
    /\ history' = KeepFirst(InsertFirst(history,
                      HistoryEntry(now, code, review, review_type, stats,
                                   response_time)))
    /\ response' = NoResponse
    /\ pc' = "done"
    /\ UNCHANGED <<config, parked, posts, locals, tmp_files, batch>>

\* the codes reviewed: a short one and one longer than the preview
HistoryCodes == {Abc, Repeat("x", PreviewLength + 1)}

-----------------------------------------------------------------------------
(* Medical notes frontend: frontend/app.py *)

BACKEND_URL == "http://localhost:8000"

\* the timeout of the POST of extract_note, in seconds
ExtractNoteTimeout == 120

\* the values json.loads builds, each with the name of its Python type
Str(v) == [kind |-> "str", v |-> v]

IntValue(digits) == [kind |-> "int", v |-> digits]

Bool(b) == [kind |-> "bool", v |-> <<b>>]

NoneValue == [kind |-> "NoneType", v |-> << >>]

List(elements) == [kind |-> "list", v |-> elements]

Dict(members) == [kind |-> "dict", v |-> members]

\* json.loads raised json.JSONDecodeError
JSONDecodeError == [kind |-> "JSONDecodeError", v |-> << >>]

\* the outcome of scanning one value: the value and the index after it
NoParse == [ok |-> FALSE, value |-> NoneValue, next |-> 0]

Parsed(value, next) == [ok |-> TRUE, value |-> value, next |-> next]

JsonWhitespace == {" ", "\n", "\t", "\r"}

Digits == {"0", "1", "2", "3", "4", "5", "6", "7", "8", "9"}

\* the escapes of a JSON string (the scanner stops at \b and \u, which no
\* text here holds)
Escapes ==
    ("\"" :> "\"") @@ ("\\" :> "\\") @@ ("/" :> "/") @@ ("n" :> "\n")
    @@ ("t" :> "\t") @@ ("r" :> "\r") @@ ("f" :> "\f")

\* the index of the first character at or after i that is no whitespace
RECURSIVE SkipWhitespace(_, _)
SkipWhitespace(s, i) ==
    IF i <= Len(s) /\ s[i] \in JsonWhitespace THEN SkipWhitespace(s, i + 1)
    ELSE i

\* the string whose opening quote is before i; acc is what was read of it
RECURSIVE ScanString(_, _, _)
ScanString(s, i, acc) ==
    IF i > Len(s) THEN NoParse
    ELSE IF s[i] = "\"" THEN Parsed(Str(acc), i + 1)
    ELSE IF s[i] \in {"\n", "\t", "\r", "\f"} THEN NoParse
    ELSE IF s[i] = "\\"
    THEN IF i < Len(s) /\ s[i + 1] \in DOMAIN Escapes
         THEN ScanString(s, i + 2, Append(acc, Escapes[s[i + 1]]))
         ELSE NoParse
    ELSE ScanString(s, i + 1, Append(acc, s[i]))

\* the index after the run of digits that starts at i
RECURSIVE ScanDigits(_, _)
ScanDigits(s, i) ==
    IF i <= Len(s) /\ s[i] \in Digits THEN ScanDigits(s, i + 1) ELSE i

\* an integer at i: an optional "-", then "0" or a run of digits that does
\* not start with "0"
ScanNumber(s, i) ==
    LET first == IF s[i] = "-" THEN i + 1 ELSE i
    IN  IF first > Len(s) \/ s[first] \notin Digits THEN NoParse
        ELSE LET end == IF s[first] = "0" THEN first + 1
                        ELSE ScanDigits(s, first)
             IN  Parsed(IntValue(SubSeq(s, i, end - 1)), end)

\* s holds the text literal at i
HasAt(s, i, literal) ==
    /\ i + Len(literal) - 1 <= Len(s)
    /\ SubSeq(s, i, i + Len(literal) - 1) = literal

\* the scanner of json.loads for objects, arrays, strings, integers, true,
\* false and null
RECURSIVE ScanValue(_, _), ScanMembers(_, _, _, _), ScanElements(_, _, _, _)
ScanValue(s, i) ==
    IF i > Len(s) THEN NoParse
    ELSE IF s[i] = "\"" THEN ScanString(s, i + 1, << >>)
    ELSE IF s[i] = "{"
    THEN ScanMembers(s, SkipWhitespace(s, i + 1), NoFields, TRUE)
    ELSE IF s[i] = "["
    THEN ScanElements(s, SkipWhitespace(s, i + 1), << >>, TRUE)
    ELSE IF s[i] \in Digits \cup {"-"} THEN ScanNumber(s, i)
    ELSE IF HasAt(s, i, <<"n", "u", "l", "l">>) THEN Parsed(NoneValue, i + 4)
    ELSE IF HasAt(s, i, <<"t", "r", "u", "e">>) THEN Parsed(Bool(TRUE), i + 4)
    ELSE IF HasAt(s, i, <<"f", "a", "l", "s", "e">>)
    THEN Parsed(Bool(FALSE), i + 5)
    ELSE NoParse

\* the members of an object from i on; a key given twice keeps its last
\* value
ScanMembers(s, i, members, first) ==
    IF i > Len(s) THEN NoParse
    ELSE IF first /\ s[i] = "}" THEN Parsed(Dict(members), i + 1)
    ELSE IF s[i] # "\"" THEN NoParse
    ELSE LET key == ScanString(s, i + 1, << >>)
             colon == SkipWhitespace(s, key.next)
         IN  IF ~key.ok \/ colon > Len(s) \/ s[colon] # ":" THEN NoParse
             ELSE LET val == ScanValue(s, SkipWhitespace(s, colon + 1))
                      after == SkipWhitespace(s, val.next)
                      now == (key.value.v :> val.value) @@ members
                  IN  IF ~val.ok \/ after > Len(s) THEN NoParse
                      ELSE IF s[after] = "}" THEN Parsed(Dict(now), after + 1)
                      ELSE IF s[after] = ","
                      THEN ScanMembers(s, SkipWhitespace(s, after + 1), now,
                                       FALSE)
                      ELSE NoParse

\* the elements of an array from i on
ScanElements(s, i, elements, first) ==
    IF i > Len(s) THEN NoParse
    ELSE IF first /\ s[i] = "]" THEN Parsed(List(elements), i + 1)
    ELSE LET val == ScanValue(s, i)
             after == SkipWhitespace(s, val.next)
         IN  IF ~val.ok \/ after > Len(s) THEN NoParse
             ELSE IF s[after] = "]"
             THEN Parsed(List(Append(elements, val.value)), after + 1)
             ELSE IF s[after] = ","
             THEN ScanElements(s, SkipWhitespace(s, after + 1),
                               Append(elements, val.value), FALSE)
             ELSE NoParse

\* json.loads(s): the value, or JSONDecodeError for text that is no JSON
\* document or is followed by more text
json_loads(s) ==
    LET doc == ScanValue(s, SkipWhitespace(s, 1))
    IN  IF ~doc.ok THEN JSONDecodeError
        ELSE IF SkipWhitespace(s, doc.next) <= Len(s) THEN JSONDecodeError
        ELSE doc.value

KeySymptoms == <<"s", "y", "m", "p", "t", "o", "m", "s">>

KeyDiagnosis == <<"d", "i", "a", "g", "n", "o", "s", "i", "s">>

KeyMedications == <<"m", "e", "d", "i", "c", "a", "t", "i", "o", "n", "s">>

KeyFollowUp == <<"f", "o", "l", "l", "o", "w", "_", "u", "p">>

KeyFollowUpCamel == <<"f", "o", "l", "l", "o", "w", "U", "p">>

NotSpecified == Str(<<"N", "o", "t", " ", "s", "p", "e", "c", "i", "f", "i", "e", "d">>)

NotAvailable == Str(<<"N", "/", "A">>)

ErrorValue == Str(<<"E", "r", "r", "o", "r">>)

\* data.get(key, default) of a dict
Get(data, key, default) ==
    IF key \in DOMAIN data.v THEN data.v[key] ELSE default

\* parse_structured_data(structured_str)
parse_structured_data(structured_str) ==
    LET data == json_loads(structured_str)
    IN  IF data.kind = "JSONDecodeError"
        THEN Returned([symptoms |-> NotAvailable, diagnosis |-> NotAvailable,
                       medications |-> NotAvailable, follow_up |-> NotAvailable])
        ELSE IF data.kind # "dict"
        THEN Raise("AttributeError",
                   <<"'", data.kind, "' object has no attribute 'get'">>)
        ELSE Returned(
                 [symptoms |-> Get(data, KeySymptoms, NotSpecified),
                  diagnosis |-> Get(data, KeyDiagnosis, NotSpecified),
                  medications |-> Get(data, KeyMedications, NotSpecified),
                  follow_up |-> Get(data, KeyFollowUp,
                                    Get(data, KeyFollowUpCamel, NotSpecified))])

\* extract_note from the POST on: the dict it returns for an outcome
extract_note(o) ==
    IF "ConnectionError" \in o.raised
    THEN [k \in {"error"} |->
             <<"Cannot connect to backend. Please ensure the server is running.">>]
    ELSE IF o.raised # {}
    THEN [k \in {"error"} |-> <<"requests exception">>]
    ELSE IF o.json = "invalid"
    THEN [k \in {"error"} |-> <<"JSONDecodeError">>]
    ELSE IF o.status = 200 THEN o.fields
    ELSE [k \in {"error"} |->
             IF "detail" \in DOMAIN o.fields THEN o.fields["detail"]
             ELSE <<"Unknown error">>]

\* the entry the batch loop makes for a row: "Error" in all four fields
\* when extract_note gave an error, else what parse_structured_data returns
\* or raises for the structured text
RowResult(response_dict) ==
    IF "error" \in DOMAIN response_dict
    THEN Returned([symptoms |-> ErrorValue, diagnosis |-> ErrorValue,
                   medications |-> ErrorValue, follow_up |-> ErrorValue])
    ELSE parse_structured_data(IF "structured" \in DOMAIN response_dict
                               THEN response_dict["structured"]
                               ELSE <<"{", "}">>)

\* r.get("diagnosis") == "Error"
IsError(value) == value.kind = "str" /\ value.v = ErrorValue.v

\* the script run ended by an exception, which the page shows
ScriptException(result) ==
    [status |-> 0, exception |-> result.exc, message |-> result.message]

\* the state of the page before a batch run
NoBatch ==
    [df |-> << >>, results |-> << >>, batch_results |-> None,
     raised |-> "none"]

\* the metrics and cards shown for st.session_state.batch_results; nothing
\* is shown for an empty list
BatchDisplay(results) ==
    IF results = << >> THEN NoResponse
    ELSE LET success_count ==
                 Cardinality({i \in 1..Len(results) :
                                  ~IsError(results[i].diagnosis)})
         IN  [status |-> 200, total |-> Len(results),
              successful |-> success_count,
              failed |-> Len(results) - success_count, cards |-> results]

\* the POST extract_note makes for a note
ExtractPost(note) ==
    Post(<<BACKEND_URL, "/extract/">>, [note |-> note],
         Some(ExtractNoteTimeout))

\* "Process Notes" pressed with the data frame df: the loop up to the
\* first extract_note, or all of it when df has no row
batch_start(df) ==
    /\ pc = "idle"
    /\ batch = NoBatch
    /\ svc' = "batch"
    /\ request' = [df |-> df]
    /\ IF df = << >>
       THEN /\ batch' = [NoBatch EXCEPT !.batch_results = Some(<< >>)]
            /\ posts' = << >>
            /\ response' = BatchDisplay(<< >>)
            /\ pc' = "done"
       ELSE /\ batch' = [NoBatch EXCEPT !.df = df]
            /\ posts' = <<ExtractPost(df[1].doctor_notes)>>
            /\ response' = NoResponse
            /\ pc' = "calling"
    /\ UNCHANGED <<config, parked, locals, tmp_files, history>>

\* the batch loop from the answer to a row's POST on: the row's entry is
\* appended and the next row sent; after the last row the results are
\* stored and shown; an exception ends the script run
batch_row(o) ==
    /\ svc = "batch"
    /\ pc = "calling"
    /\ Arrives(o)
    /\ LET row == batch.df[Len(posts)]
           parsed == RowResult(extract_note(o))
           results == Append(batch.results,
                          [patient_id |-> row.patient_id,
                           symptoms |-> parsed.value.symptoms,
                           diagnosis |-> parsed.value.diagnosis,
                           medications |-> parsed.value.medications,
                           follow_up |-> parsed.value.follow_up])
       IN  IF parsed.exc # "none"
           THEN /\ posts' = Answered(posts, o)
                /\ batch' = [batch EXCEPT !.raised = parsed.exc]
                /\ response' = ScriptException(parsed)
                /\ pc' = "done"
           ELSE IF Len(posts) < Len(batch.df)
           THEN /\ posts' = Append(Answered(posts, o),
                       ExtractPost(batch.df[Len(posts) + 1].doctor_notes))
                /\ batch' = [batch EXCEPT !.results = results]
                /\ UNCHANGED <<response, pc>>
           ELSE /\ posts' = Answered(posts, o)
                /\ batch' = [batch EXCEPT !.results = results,
                                          !.batch_results = Some(results)]
                /\ response' = BatchDisplay(results)
                /\ pc' = "done"
    /\ UNCHANGED <<config, parked, svc, request, locals, tmp_files, history>>

\* parse_structured_data(structured_str) called on its own
parse_call(structured_str) ==
    /\ pc = "idle"
    /\ svc' = "parse_structured_data"
    /\ request' = [structured_str |-> structured_str]
    /\ posts' = << >>
    /\ response' = parse_structured_data(structured_str)
    /\ pc' = "done"
    /\ UNCHANGED <<config, parked, locals, tmp_files, history, batch>>

\* the browser session ends: st.session_state starts empty again
new_session ==
    /\ pc = "idle"
    /\ history # << >> \/ batch # NoBatch
    /\ history' = << >>
    /\ batch' = NoBatch
    /\ UNCHANGED <<config, parked, svc, pc, request, posts, response, locals,
                   tmp_files>>

\* structured texts as the model may return them
StructuredTexts ==
    {<<"{", "\"", "s", "y", "m", "p", "t", "o", "m", "s", "\"", ":", "\"", "c", "\"", ",", "\"", "d", "i", "a", "g", "n", "o", "s", "i", "s", "\"", ":", "\"", "f", "\"", ",", "\"", "m", "e", "d", "i", "c", "a", "t", "i", "o", "n", "s", "\"", ":", "\"", "r", "\"", ",", "\"", "f", "o", "l", "l", "o", "w", "_", "u", "p", "\"", ":", "\"", "w", "\"", "}">>,
     <<"{", "\"", "d", "i", "a", "g", "n", "o", "s", "i", "s", "\"", ":", " ", "\"", "f", "\"", ",", " ", "\"", "f", "o", "l", "l", "o", "w", "U", "p", "\"", ":", " ", "\"", "u", "\"", "}">>,
     <<"{", "\"", "f", "o", "l", "l", "o", "w", "_", "u", "p", "\"", ":", "\"", "w", "\"", ",", "\"", "f", "o", "l", "l", "o", "w", "U", "p", "\"", ":", "\"", "u", "\"", "}">>,
     <<"{", "\"", "d", "i", "a", "g", "n", "o", "s", "i", "s", "\"", ":", "\"", "E", "r", "r", "o", "r", "\"", "}">>,
     <<"{", "\"", "d", "i", "a", "g", "n", "o", "s", "i", "s", "\"", ":", "\"", "f", "\"", ",", "\"", "d", "i", "a", "g", "n", "o", "s", "i", "s", "\"", ":", "\"", "g", "\"", "}">>,
     <<"{", "\"", "s", "y", "m", "p", "t", "o", "m", "s", "\"", ":", "[", "\"", "c", "\"", ",", "\"", "d", "\"", "]", ",", "\"", "d", "i", "a", "g", "n", "o", "s", "i", "s", "\"", ":", "n", "u", "l", "l", "}">>,
     <<"{", "}">>,
     <<"[", "]">>,
     <<"7">>,
     <<"n", "u", "l", "l">>,
     <<"\"", "f", "l", "u", "\"">>,
     <<"S", "u", "r", "e", "!", " ", "{", "\"", "d", "i", "a", "g", "n", "o", "s", "i", "s", "\"", ":", "\"", "f", "\"", "}">>,
     <<"{", "\"", "d", "i", "a", "g", "n", "o", "s", "i", "s", "\"", ":", "\"", "f", "\"">>,
     <<"{", "\"", "d", "i", "a", "g", "n", "o", "s", "i", "s", "\"", ":", "\"", "f", "\"", ",", "}">>,
     <<"{", "\"", "d", "i", "a", "g", "n", "o", "s", "i", "s", "\"", ":", "\"", "a", "\\", "\"", "b", "\"", "}", " ">>,
     << >>}

\* the answers of the backend to POST /extract/
ExtractAnswers ==
    {Answer(200, "object", [k \in {"structured"} |-> text]) :
         text \in StructuredTexts}
    \cup {Answer(200, "object", NoFields),
          Answer(400, "object", [k \in {"detail"} |-> <<"Note cannot be empty">>]),
          Answer(500, "object", [k \in {"detail"} |-> <<"Request timed out.">>]),
          Answer(500, "invalid", NoFields)}

ExtractOutcomes == TransportFailures \cup ExtractAnswers

\* the rows a data frame may hold
MaxRows == 2

\* the data frames: the first n rows, n from 0 to MaxRows
DataFrames ==
    {[i \in 1..n |-> [patient_id |-> i, doctor_notes |-> <<"n", ToString(i)>>]] :
         n \in 0..MaxRows}

-----------------------------------------------------------------------------
(* Specifications *)

Init ==
    /\ config = Configuration
    /\ parked = [w \in 1..MaxParked |-> IdleContext]
    /\ svc = "none"
    /\ pc = "idle"
    /\ request = [code |-> << >>]
    /\ posts = << >>
    /\ response = NoResponse
    /\ locals = NoLocals
    /\ tmp_files = 0
    /\ history = << >>
    /\ batch = NoBatch

\* the response is sent and the worker takes the next request: nothing of
\* the request served is kept
respond ==
    /\ pc = "done"
    /\ UNCHANGED <<config, parked, history, batch>>
    /\ svc' = "none"
    /\ pc' = "idle"
    /\ request' = [code |-> << >>]
    /\ posts' = << >>
    /\ response' = NoResponse
    /\ locals' = NoLocals
    /\ UNCHANGED tmp_files

\* the services as reached over HTTP
Next ==
    \/ \E body \in ReviewBodies : review_code(body)
    \/ \E o \in PostOutcomes : review_code_return(o)
    \/ \E note \in Notes, model \in {Absent, "mistral"} :
          extract_medical_info(note, model)
    \/ \E o \in PostOutcomes : extract_medical_info_return(o)
    \/ \E file \in Images, tone \in Tones, include_hashtags \in BOOLEAN,
          custom_prompt \in CustomPrompts :
          caption_image(file, tone, include_hashtags, custom_prompt)
    \/ \E o \in PostOutcomes : caption_image_return(o)
    \/ \E filename \in Filenames, stored \in BOOLEAN, ffmpeg \in BOOLEAN,
          tr \in TranscribeOutcomes :
          process_audio(filename, stored, ffmpeg, tr)
    \/ \E o \in PostOutcomes : process_audio_return(o)
    \/ \E o \in GetOutcomes : review_health_check(o)
    \/ \E o \in GetOutcomes : meeting_health_check(o)
    \/ \E o \in GetOutcomes : medical_health_check(o)
    \/ \E tr \in TranscribeOutcomes : v1_process_audio(tr)
    \/ \E o \in PostOutcomes : v1_process_audio_return(o)
    \/ backend_silent
    \/ respond

Spec == Init /\ [][Next]_vars

\* the gateway's functions called directly
NextUnit ==
    \/ \E code \in UnitCodes, review_type \in ReviewType \cup {"style", ""},
          language \in Hints : get_review(code, review_type, language)
    \/ \E o \in PostOutcomes : get_review_return(o)
    \/ \E code \in FragmentStrings(MaxFrags) \cup {PyDef} : detect_language(code)
    \/ \E file \in {<<77>>}, tone \in Tones, include_hashtags \in BOOLEAN,
          custom_prompt \in CustomPrompts :
          caption_image(file, tone, include_hashtags, custom_prompt)
    \/ \E o \in PostOutcomes : caption_image_return(o)
    \/ backend_silent
    \/ respond

SpecUnit == Init /\ [][NextUnit]_vars

\* the requests and answers of the concurrent invocations
ConcBodies ==
    {[code |-> <<"x">>, review_type |-> Absent, language |-> None],
     [code |-> PyDef, review_type |-> "bugs", language |-> Some(<<"g", "o">>)]}

ConcOutcomes ==
    {Answer(200, "object", [k \in {"response"} |-> TextOk]),
     ConnectionRefused, ReadTimeout}

\* invocations of the services running concurrently
NextConc ==
    \/ \E body \in ConcBodies : review_code(body)
    \/ \E o \in ConcOutcomes : review_code_return(o)
    \/ \E note \in {<<"x">>}, model \in {Absent, "mistral"} :
          extract_medical_info(note, model)
    \/ \E o \in ConcOutcomes : extract_medical_info_return(o)
    \/ \E ffmpeg \in BOOLEAN :
          process_audio(<<"a", ".", "m", "p", "3">>, TRUE, ffmpeg,
                        [ok |-> TRUE, text |-> <<"h", "i">>])
    \/ \E o \in ConcOutcomes : process_audio_return(o)
    \/ \E w \in DOMAIN parked : switch(w)
    \/ respond

SpecConc == Init /\ [][NextConc]_vars

-----------------------------------------------------------------------------
(* Properties *)

\* the request of handler s has been taken up
Serving(s) == svc = s /\ pc \in {"calling", "done"}

\* handler s has finished
Finished(s) == svc = s /\ pc = "done"

\* every character of s is whitespace (s may be empty)
IsBlank(s) == \A i \in 1..Len(s) : s[i] \in Whitespace

EmptyDetail == <<"Code cannot be empty">>

TooLongDetail == <<"Code too long. Maximum 50,000 characters allowed.">>

\* C1 as stated: every POST /review whose code is longer than 50,000
\* characters is rejected with HTTP 400 as too large and no POST reaches the
\* backend.
C1_OverCeilingTooLarge ==
    (Serving("review_code") /\ Len(request.code) > MaxCodeLength)
        => /\ pc = "done"
           /\ response.status = 400
           /\ response.detail = TooLongDetail
           /\ posts = << >>

\* C1 amended: every POST /review whose code is longer than 50,000
\* characters is rejected with HTTP 400 and no POST reaches the backend; the
\* reason is "too long" unless the code is all whitespace, which is rejected
\* as empty.
C1_OverCeilingRejected ==
    (Serving("review_code") /\ Len(request.code) > MaxCodeLength)
        => /\ pc = "done"
           /\ response.status = 400
           /\ response.detail = IF IsBlank(request.code) THEN EmptyDetail
                                ELSE TooLongDetail
           /\ posts = << >>

C1_Witness ==
    /\ Finished("review_code")
    /\ Len(request.code) > MaxCodeLength
    /\ ~IsBlank(request.code)
    /\ IsBlank(SubSeq(request.code, 1, MaxCodeLength))
    /\ response.detail = TooLongDetail

\* C2 as stated: content that strips to zero length (empty or whitespace
\* only) is rejected with HTTP 400, reason empty, and no POST reaches the
\* backend, in POST /review and in POST /extract/.
C2_BlankRejected400 ==
    /\ (Serving("review_code") /\ IsBlank(request.code))
           => /\ pc = "done"
              /\ response.status = 400
              /\ response.detail = EmptyDetail
              /\ posts = << >>
    /\ (Serving("extract_medical_info") /\ IsBlank(request.note))
           => /\ pc = "done"
              /\ response.status = 400
              /\ response.detail = <<"Note cannot be empty">>
              /\ posts = << >>

\* the prompt get_review is to send for a template: its instruction text,
\* then the fenced language and code
RenderedWith(template, language, code) ==
    <<template[1]>> \o Fence \o language \o <<"\n">> \o code \o <<"\n">>
    \o Fence

\* C3: for a category that is no registered template key the prompt is
\* rendered with the default template (general in get_review, Standard in
\* generate_caption); the lookup does not raise and the prompt is not empty.
C3_DefaultTemplate ==
    /\ (Serving("get_review") /\ request.review_type \notin DOMAIN REVIEW_PROMPTS)
           => /\ Len(posts) = 1
              /\ Len(posts[1].body.prompt) > 0
              /\ posts[1].body.prompt =
                     RenderedWith(REVIEW_PROMPTS["general"],
                         IF Truthy(request.language) THEN request.language.v
                         ELSE _detect_language(request.code),
                         request.code)
    /\ (Serving("caption_image") /\ request.tone \notin DOMAIN prompt_templates)
           => /\ Len(posts) = 1
              /\ Len(posts[1].body.prompt) > 0
              /\ ~Truthy(request.custom_prompt)
                     => posts[1].body.prompt[1] = prompt_templates["Standard"]

C3_Witness ==
    /\ Serving("get_review")
    /\ request.review_type = "style"
    /\ posts[1].body.prompt[1] = REVIEW_PROMPTS["general"][1]

\* C4 as stated: a review request whose review_type is absent, or present
\* but not registered, is accepted and processed with the category general.
C4_UnknownCategoryAccepted ==
    (/\ Serving("review_code")
     /\ request.review_type \notin ReviewType
     /\ ~IsBlank(request.code)
     /\ Len(request.code) <= MaxCodeLength)
        => /\ Len(posts) = 1
           /\ posts[1].body.prompt[1] = REVIEW_PROMPTS["general"][1]
           /\ pc = "done" => response.status \notin {400, 422}

\* C5: for every registered category, every code X and every non-empty
\* hint Y, the prompt get_review renders holds X and Y verbatim, also when
\* they hold braces or placeholders.
C5_PromptHoldsCodeAndHint ==
    (/\ Serving("get_review")
     /\ request.review_type \in ReviewType
     /\ Truthy(request.language))
        => /\ Contains(posts[1].body.prompt, request.code)
           /\ Contains(posts[1].body.prompt, request.language.v)

C5_Witness ==
    /\ Serving("get_review")
    /\ request.review_type = "security"
    /\ Contains(request.code, <<"{">>)
    /\ request.language = Some(<<"{", "c", "o", "d", "e", "}">>)

\* the rules of the detector in their order: whether each matches code
RuleMatches(code) ==
    <<Contains(code, KwDef) /\ Contains(code, KwColon),
      \/ Contains(code, KwFunction) \/ Contains(code, KwConst)
      \/ Contains(code, KwLet),
      Contains(code, KwPublicClass) \/ Contains(code, KwPrivate),
      Contains(code, KwInclude),
      Contains(code, KwFunc) /\ Contains(code, KwBrace),
      \/ Contains(Lower(code), KwHtml) \/ Contains(Lower(code), KwDoctype),
      Contains(Lower(code), KwSelect) /\ Contains(Lower(code), KwFrom)>>

RuleLanguages == <<Python, Javascript, Java, Cpp, Go, Html, Sql>>

\* C6: _detect_language returns the language of the first rule that
\* matches in the order python, javascript, java, cpp, go, html, sql, and
\* "code" when none matches; code holding "def " and ":" gives python
\* whatever else it holds.
C6_FirstMatchingRule ==
    Finished("_detect_language") =>
        LET m == RuleMatches(request.code)
        IN  /\ \A k \in 1..Len(m) :
                   (m[k] /\ \A j \in 1..(k - 1) : ~m[j])
                       => response.value = RuleLanguages[k]
            /\ (\A k \in 1..Len(m) : ~m[k]) => response.value = Code
            /\ (Contains(request.code, KwDef) /\ Contains(request.code, KwColon))
                   => response.value = Python

C6_Witness ==
    /\ Finished("_detect_language")
    /\ Contains(request.code, KwDef)
    /\ Contains(request.code, KwColon)
    /\ Contains(request.code, KwLet)
    /\ response.value = Python

-----------------------------------------------------------------------------
(* Properties of the gateway's dispatch *)

\* the endpoints that dispatch to /api/generate
Handlers ==
    {"review_code", "extract_medical_info", "caption_image", "process_audio"}

\* the outcome of the last POST made for the request
LastAnswer == posts[Len(posts)].answer

\* an outcome that is an HTTP answer
IsAnswer(o) == o.raised = {}

\* the request ended in a failure: an HTTP error status or, in
\* generate_caption, an error text in place of the caption
TaskFailed ==
    /\ pc = "done"
    /\ \/ response.status >= 400
       \/ /\ svc = "caption_image"
          /\ Len(response.caption) > 0
          /\ response.caption[1] \in {ErrorCommunicating, ErrorUnexpected}

\* a failed POST as C7 lists them: timeout, connection error, non-200
\* status, malformed body
FailedAsStated(o) ==
    \/ o.raised \cap {"Timeout", "ConnectionError"} # {}
    \/ IsAnswer(o) /\ (o.status # 200 \/ o.json # "object")

\* a failed POST: timeout, connection error, error status (any non-200
\* status for get_review), malformed body
FailedPost(o) ==
    \/ o.raised \cap {"Timeout", "ConnectionError"} # {}
    \/ IsAnswer(o) /\ (IF svc = "review_code" THEN o.status # 200
                       ELSE o.status >= 400)
    \/ IsAnswer(o) /\ o.json # "object"

\* the dispatches a request makes at most
Dispatches == IF svc = "process_audio" THEN MeetingCalls ELSE 1

-----------------------------------------------------------------------------
(* Properties of the health probes *)

HealthChecks ==
    {"review_health_check", "meeting_health_check", "medical_health_check"}

ReportsConnected == response.ollama_status = <<"connected">>

\* the GET to the tags endpoint returned status 200
Got200 == IsAnswer(request.probe) /\ request.probe.status = 200

\* C8 as stated: the probe never throws and reports connected if and only
\* if the GET to the tags endpoint returned status 200.
C8_ConnectedIffStatus200 ==
    (svc \in HealthChecks /\ pc = "done") =>
        /\ response.status = 200
        /\ ReportsConnected <=> Got200

\* C8 amended: the probe never throws; it reports connected only if the
\* GET returned status 200, so never for a transport exception or a
\* non-200 status; check_connection and the meeting-notes health_check
\* report connected for every 200, check_ollama_status for a 200 whose body
\* is a JSON object.
C8_ConnectedOnlyIfStatus200 ==
    (svc \in HealthChecks /\ pc = "done") =>
        /\ response.status = 200
        /\ ReportsConnected => Got200
        /\ (Got200 /\ svc # "medical_health_check") => ReportsConnected
        /\ (Got200 /\ svc = "medical_health_check")
               => (ReportsConnected <=> request.probe.json = "object")

C8_Witness ==
    /\ Finished("medical_health_check")
    /\ Got200
    /\ request.probe.json = "invalid"
    /\ ~ReportsConnected

-----------------------------------------------------------------------------
(* Properties of the outcome of a request *)

\* the model's text in a success response
ResultText ==
    CASE svc = "review_code" -> response.review
      [] svc = "extract_medical_info" -> response.structured
      [] svc = "caption_image" -> response.caption
      [] svc = "process_audio" -> response.summary

\* C9 as stated: in every service a 200 answer whose JSON object lacks the
\* response field yields a success whose result text is empty, never a
\* failure.
C9_MissingFieldEmptySuccess ==
    (/\ svc \in Handlers
     /\ pc = "done"
     /\ Len(posts) >= 1
     /\ IsAnswer(LastAnswer)
     /\ LastAnswer.status = 200
     /\ LastAnswer.json = "object"
     /\ "response" \notin DOMAIN LastAnswer.fields)
        => /\ response.status = 200
           /\ ResultText = << >>

\* C10 as stated: in every service, when the backend is unreachable during
\* a task the response to the caller has status 503.
C10_Unreachable503 ==
    (/\ svc \in Handlers
     /\ pc = "done"
     /\ Len(posts) >= 1
     /\ LastAnswer = ConnectionRefused)
        => response.status = 503

-----------------------------------------------------------------------------
(* Properties of the failure mapping *)

\* the details the handlers give to a timed-out call
TimedOutDetails ==
    {<<"Request timed out. Try with shorter code.">>,
     <<"Request to Ollama timed out. Please try again.">>,
     <<"Request timed out. The model is taking too long to respond.">>}

\* the response is an HTTP error raised by the handler itself
IsHTTPException ==
    "via" \in DOMAIN response /\ response.via = "HTTPException"

\* C11 as stated: in every service, when the backend does not respond
\* within the timeout the request ends in an HTTP 504 or 503 response with
\* a timed-out message, raised by the handler (never an unhandled
\* exception).
C11_TimeoutReported504or503 ==
    (/\ svc \in Handlers
     /\ pc = "done"
     /\ Len(posts) >= 1
     /\ LastAnswer = ReadTimeout)
        => /\ response.status \in {503, 504}
           /\ IsHTTPException
           /\ response.detail \in TimedOutDetails

\* the backend was reached and answered with an error status or with a
\* body that is no JSON object
BackendErrorAnswer(o) ==
    IsAnswer(o) /\ (o.status >= 400 \/ o.json # "object")

\* the status code of answer o is part of the detail of the response
DetailHoldsStatus(o) ==
    \E i \in 1..Len(response.detail) : response.detail[i] = ToString(o.status)

\* C12 as stated: when the backend is reachable but answers with a
\* non-success status or a malformed payload, the response is HTTP 500, and
\* for a non-success status its detail includes the status code the backend
\* answered with.
C12_BackendError500WithStatus ==
    (/\ svc \in Handlers
     /\ pc = "done"
     /\ Len(posts) >= 1
     /\ BackendErrorAnswer(LastAnswer))
        => /\ response.status = 500
           /\ LastAnswer.status >= 400 => DetailHoldsStatus(LastAnswer)

\* the endpoints that run a task, the first version of the meeting notes
\* included
TaskEndpoints == Handlers \cup {"v1_process_audio"}

\* the response is the server's answer to an exception that left the
\* endpoint
IsUncaught == "via" \in DOMAIN response /\ response.via = "uncaught"

\* C13 as stated: in every service no failure of the gateway or of the
\* transcription step leaves a request handler as an uncaught exception.
C13_NoUncaughtException ==
    (svc \in TaskEndpoints /\ pc = "done") => ~IsUncaught

-----------------------------------------------------------------------------
(* Properties of the outcome of a task *)

\* the fields of the responses that carry results
ResultFields ==
    {"review", "review_type", "stats", "structured", "caption", "transcript",
     "summary", "action_items", "key_topics", "word_count"}

\* the response is a failure that carries no result
IsFailureOnly ==
    /\ response.status >= 400
    /\ DOMAIN response \cap ResultFields = {}

\* a call of the meeting-notes call_ollama that ended with outcome o failed
MeetingCallFailed(o) ==
    \/ o.raised # {}
    \/ o.status >= 400
    \/ o.json # "object"
    \/ "response" \notin DOMAIN o.fields

\* C14: every finished request has one of two outcomes, a success with the
\* whole result or a failure with no result; when one of the three backend
\* calls of process_audio fails the response is a failure that holds none of
\* the transcript, summary, action items or key topics.
C14_SuccessOrFailureNoPartial ==
    (svc \in Handlers /\ pc = "done") =>
        /\ response.status = 200 \/ IsFailureOnly
        /\ svc = "process_audio" =>
              /\ (\E i \in 1..Len(posts) : MeetingCallFailed(posts[i].answer))
                    => IsFailureOnly
              /\ response.status = 200 =>
                    /\ Len(posts) = MeetingCalls
                    /\ {"transcript", "summary", "action_items", "key_topics"}
                           \subseteq DOMAIN response
        /\ svc = "review_code" /\ response.status = 200 =>
              {"review", "review_type", "stats"} \subseteq DOMAIN response

C14_Witness ==
    /\ Finished("process_audio")
    /\ Len(posts) = MeetingCalls
    /\ Len(locals.outputs) = 2
    /\ MeetingCallFailed(posts[3].answer)
    /\ response.status = 500

-----------------------------------------------------------------------------
(* Properties of the review statistics *)

\* C15: the stats of a review response are computed over the code as it was
\* submitted, not over the review and not over the stripped code: lines is
\* the number of newline characters plus one, characters the length, words
\* the number of whitespace-delimited tokens; "a\nb\nc" gives 3 lines, 3
\* words and 5 characters.
C15_StatsOverRawInput ==
    (Finished("review_code") /\ response.status = 200) =>
        LET code == request.code
        IN  /\ response.stats.lines = CountNewlines(code) + 1
            /\ response.stats.characters = Len(code)
            /\ response.stats.words = CountWords(code)
            /\ code = Abc =>
                  response.stats = [lines |-> 3, characters |-> 5, words |-> 3]
            /\ code = <<" ", "x", "\n">> =>
                  response.stats = [lines |-> 2, characters |-> 3, words |-> 1]

C15_Witness ==
    /\ Finished("review_code")
    /\ response.status = 200
    /\ request.code = <<" ", "x", "\n">>
    /\ response.review = <<"o", "k">>
    /\ response.stats = [lines |-> 2, characters |-> 3, words |-> 1]

-----------------------------------------------------------------------------
(* Properties of the caption prompt *)

\* the prompt generate_caption selects before the hashtag flag is looked
\* at: the custom prompt if it is not empty, else the template of the tone,
\* else the Standard template
SelectedPrompt ==
    IF request.custom_prompt.some /\ request.custom_prompt.v # << >>
    THEN request.custom_prompt.v
    ELSE IF request.tone \in DOMAIN prompt_templates
    THEN <<prompt_templates[request.tone]>>
    ELSE <<prompt_templates["Standard"]>>

\* C16: the prompt generate_caption sends is the selected prompt followed by
\* exactly one hashtag instruction when include_hashtags is set, and the
\* selected prompt unchanged when it is not.
C16_HashtagSuffixOnce ==
    Serving("caption_image") =>
        posts[1].body.prompt =
            IF request.include_hashtags
            THEN SelectedPrompt \o <<HashtagInstruction>>
            ELSE SelectedPrompt

C16_Witness ==
    /\ Serving("caption_image")
    /\ request.include_hashtags
    /\ request.custom_prompt.some
    /\ request.custom_prompt.v # << >>
    /\ posts[1].body.prompt = request.custom_prompt.v \o <<HashtagInstruction>>

-----------------------------------------------------------------------------
(* Properties of the transcription step *)

\* the HTTPExceptions the meeting-notes call_ollama raises
InferenceFailures ==
    {call_ollama(o).error : o \in {x \in PostOutcomes : ~call_ollama(x).ok}}

\* what tells one failure response from another: the status and the fixed
\* part of the detail
FailureKind(r) == <<r.status, r.detail[1]>>

\* process_audio got a file it accepts and the transcription step failed
TranscriptionFailed ==
    /\ Finished("process_audio")
    /\ Len(request.filename) > 0
    /\ FileExtension(request.filename) \in SupportedFormats
    /\ request.stored
    /\ ~request.ffmpeg \/ ~request.tr.ok

\* C17: in process_audio a transcription failure (ffmpeg missing, or
\* model.transcribe raising) ends the request in a failure of its own, whose
\* response differs from the response of every inference failure, and no
\* inference call is made for the request.
C17_TranscriptionUnavailable ==
    TranscriptionFailed =>
        /\ posts = << >>
        /\ IsHTTPException
        /\ response.status = 500
        /\ \A e \in InferenceFailures : FailureKind(response) # FailureKind(e)

C17_Witness ==
    /\ TranscriptionFailed
    /\ request.ffmpeg
    /\ response.detail = <<"Failed to transcribe audio: ", "unsupported codec">>

-----------------------------------------------------------------------------
(* Properties of concurrent invocations *)

\* the invocations in progress: the running one and the parked ones
Contexts == <<Context>> \o parked

\* the answers the POSTs of an invocation got so far
Answers(ps) == [i \in 1..Len(ps) |-> ps[i].answer]

\* C18: for any interleaving of concurrent invocations the configuration
\* stays as it was set at process start, and what an invocation posts and
\* answers depends only on its own request and the backend's answers to its
\* own calls: two invocations of one endpoint with the same request and the
\* same answers are at the same point with the same POSTs and the same
\* response, whatever ran in between.
C18_IndependentInvocations ==
    /\ config = Configuration
    /\ \A a, b \in DOMAIN Contexts :
          (/\ Contexts[a].svc = Contexts[b].svc
           /\ Contexts[a].request = Contexts[b].request
           /\ Answers(Contexts[a].posts) = Answers(Contexts[b].posts))
              => /\ Contexts[a].pc = Contexts[b].pc
                 /\ Contexts[a].posts = Contexts[b].posts
                 /\ Contexts[a].response = Contexts[b].response

C18_Witness ==
    /\ svc = "extract_medical_info"
    /\ pc = "done"
    /\ parked[1].svc = "extract_medical_info"
    /\ parked[1].pc = "done"
    /\ parked[1].request = request
    /\ Answers(parked[1].posts) = Answers(posts)
    /\ response.status = 200
    /\ tmp_files = 1

-----------------------------------------------------------------------------
(* Properties of what reaches the backend *)

\* the content of the request being served, as the endpoint got it
Content ==
    CASE svc = "review_code" -> request.code
      [] svc = "extract_medical_info" -> request.note
      [] svc = "caption_image" -> request.file
      [] svc = "process_audio" -> locals.transcript

\* C19 as stated: in every service, whenever the inference gateway is
\* called the content of the request being served is non-empty and not
\* above the configured maximum size.
C19_ContentNonEmptyBelowMax ==
    (svc \in Handlers /\ Len(posts) >= 1) =>
        /\ Len(Content) > 0
        /\ svc # "caption_image" => Len(Strip(Content)) > 0
        /\ svc = "review_code" => Len(Content) <= MaxCodeLength

-----------------------------------------------------------------------------
(* Termination of a dispatch *)

\* requests.post returns or raises and the handler goes on
Returns ==
    \E o \in PostOutcomes :
        \/ review_code_return(o)
        \/ extract_medical_info_return(o)
        \/ caption_image_return(o)
        \/ process_audio_return(o)
        \/ v1_process_audio_return(o)

\* the services with every call that can end ending
FairSpec == Spec /\ WF_vars(Returns)

\* C20 as stated: every dispatch is made with a finite timeout, so every
\* invocation that called the backend reaches a terminal outcome, also when
\* the backend never responds, in every backend variant, the first version
\* of the meeting notes included.
C20_DispatchTerminates == (pc = "calling") ~> (pc = "done")

-----------------------------------------------------------------------------
(* The language hint, the order of the checks and of the calls *)

\* the line of the prompt that follows the opening fence: the language
FenceLanguage(prompt) ==
    LET from == 1 + Len(Fence) + 1
        nl == CHOOSE i \in from..Len(prompt) :
                  /\ prompt[i] = "\n"
                  /\ \A j \in from..(i - 1) : prompt[j] # "\n"
    IN  SubSeq(prompt, from, nl - 1)

\* C21: in get_review a non-empty language hint is interpolated into the
\* prompt unchanged and the detector's result is not used; a hint that is
\* None or the empty string is replaced by _detect_language of the code.
C21_DetectorOnlyWithoutHint ==
    Serving("get_review") =>
        LET prompt == posts[1].body.prompt
            hint == request.language
            absent == ~hint.some \/ hint.v = << >>
        IN  /\ ~absent =>
                /\ prompt = RenderedWith(PromptTemplate(request.review_type),
                                         hint.v, request.code)
                /\ ("\n" \notin {hint.v[i] : i \in 1..Len(hint.v)})
                       => FenceLanguage(prompt) = hint.v
            /\ absent =>
                /\ prompt = RenderedWith(PromptTemplate(request.review_type),
                                         _detect_language(request.code),
                                         request.code)
                /\ FenceLanguage(prompt) = _detect_language(request.code)

C21_Witness ==
    /\ Serving("get_review")
    /\ request.language = Some(<<"g", "o">>)
    /\ _detect_language(request.code) = Python
    /\ FenceLanguage(posts[1].body.prompt) = <<"g", "o">>

\* C22: in review_code the emptiness check precedes the size check and
\* the two use different measures: whitespace-only code longer than 50,000
\* characters is rejected as empty, not as too long; the size check counts
\* the raw unstripped length; code of exactly 50,000 characters is accepted.
C22_EmptyBeforeSizeRawLength ==
    (Serving("review_code") /\ CodeReviewRequestValid(request)) =>
        /\ (IsBlank(request.code) /\ Len(request.code) > MaxCodeLength)
               => /\ pc = "done"
                  /\ response.status = 400
                  /\ response.detail = EmptyDetail
        /\ (~IsBlank(request.code) /\ Len(request.code) > MaxCodeLength)
               => /\ pc = "done"
                  /\ response.status = 400
                  /\ response.detail = TooLongDetail
        /\ (~IsBlank(request.code) /\ Len(request.code) = MaxCodeLength)
               => /\ Len(posts) = 1
                  /\ Contains(posts[1].body.prompt, request.code)
                  /\ pc = "done" => response.status # 400

C22_Witness ==
    /\ Finished("review_code")
    /\ IsBlank(request.code)
    /\ Len(request.code) > MaxCodeLength
    /\ response.status = 400
    /\ response.detail = EmptyDetail

\* the POST has no answer yet
InFlight(post) == post.answer \in {Pending, Silent}

\* the closing line of the prompt of each call, in the order stated:
\* summary, action items, key topics
CallLabels == <<"Summary:", "Action Items:", "Key Topics:">>

\* C23: process_audio issues its three backend calls strictly in the order
\* summary, action items, key topics, each with a prompt embedding the same
\* stripped transcript; a later call is issued only after every earlier call
\* returned successfully, so after a failure of call k no call k+1..3 is
\* issued.
C23_CallsInOrderStopAtFailure ==
    Serving("process_audio") =>
        /\ Len(posts) <= Len(CallLabels)
        /\ \A i \in 1..Len(posts) :
               LET prompt == posts[i].body.prompt
                   transcript == Strip(request.tr.text)
               IN  /\ prompt[Len(prompt)] = CallLabels[i]
                   /\ SubSeq(prompt, 2, Len(prompt) - 3) = transcript
                   /\ Len(transcript) > 0
                   /\ \A j \in 1..(i - 1) :
                          /\ ~InFlight(posts[j])
                          /\ ~MeetingCallFailed(posts[j].answer)
                   /\ (~InFlight(posts[i])
                       /\ MeetingCallFailed(posts[i].answer))
                          => /\ Len(posts) = i
                             /\ pc = "done"

C23_Witness ==
    /\ Serving("process_audio")
    /\ Len(posts) = 3
    /\ posts[3].body.prompt[Len(posts[3].body.prompt)] = "Key Topics:"
    /\ posts[2].body.prompt[Len(posts[2].body.prompt)] = "Action Items:"
    /\ posts[3].answer = Pending
    /\ request.tr.text # locals.transcript

-----------------------------------------------------------------------------
(* Properties of process_audio's error handling and temporary file *)

UnexpectedDetail == "An unexpected error occurred: "

\* the HTTPException raised inside process_audio's try block for the
\* finished request, if one was: by call_ollama, for an empty transcript,
\* or for a failed transcription
RaisedInside ==
    IF posts # << >> /\ ~call_ollama(LastAnswer).ok
    THEN {call_ollama(LastAnswer).error}
    ELSE IF posts # << >> \/ ~request.stored THEN {}
    ELSE IF ~request.ffmpeg \/ ~request.tr.ok
    THEN {TranscriptionUnavailable(request.ffmpeg, request.tr)}
    ELSE {HTTPException(400, <<"No speech detected in the audio file">>)}

\* process_audio accepted the file name and entered its try block
InsideTry ==
    /\ Finished("process_audio")
    /\ Len(request.filename) > 0
    /\ FileExtension(request.filename) \in SupportedFormats

\* C24: an HTTPException raised inside process_audio's processing block
\* (503 or 504 from call_ollama, 400 for no speech, 500 for a transcription
\* failure) reaches the client with its original status code and detail;
\* the outer catch-all never rewraps it as a 500 "unexpected error", and
\* only errors that are no HTTPException become that generic 500.
C24_HTTPExceptionPassesThrough ==
    InsideTry =>
        /\ \A e \in RaisedInside :
               /\ response.status = e.status
               /\ response.detail = e.detail
               /\ response.detail[1] # UnexpectedDetail
        /\ (response.status >= 400 /\ response.detail[1] = UnexpectedDetail)
               <=> ~request.stored
        /\ (posts # << >> /\ "ConnectionError" \in LastAnswer.raised)
               => response.status = 503
        /\ (posts # << >> /\ LastAnswer = ReadTimeout)
               => response.status = 504
        /\ (posts = << >> /\ request.stored /\ request.ffmpeg /\ request.tr.ok)
               => response.status = 400
        /\ (request.stored /\ (~request.ffmpeg \/ ~request.tr.ok))
               => response.status = 500

C24_Witness ==
    /\ InsideTry
    /\ Len(posts) = 2
    /\ LastAnswer = ConnectionRefused
    /\ response.status = 503
    /\ response.detail =
           <<"Ollama service is not available. Please ensure Ollama is running.">>

\* C25 as stated: whenever process_audio has created its temporary audio
\* file, that file no longer exists when the request finishes, on every
\* path: successful transcription, transcription failure, ffmpeg not found
\* in PATH, empty transcript, and any later backend failure.
C25_TempFileGoneAtEnd ==
    (Finished("process_audio") /\ locals.tmp # "none" /\ request.stored)
        => /\ locals.tmp = "deleted"
           /\ tmp_files = 0

\* the extensions the claim names: mp3, wav, m4a, flac, ogg
StatedFormats ==
    {<<"m", "p", "3">>, <<"w", "a", "v">>, <<"m", "4", "a">>, <<"f", "l", "a", "c">>, <<"o", "g", "g">>}

\* the file name is missing or its extension is not one of those named
NameRejected ==
    \/ Len(request.filename) = 0
    \/ FileExtension(request.filename) \notin StatedFormats

-----------------------------------------------------------------------------
(* Properties of the classification of transport failures *)

\* the messages the gateways give to a backend they cannot connect to
UnreachableMessages ==
    {<<"Cannot connect to Ollama. Is it running?">>,
     <<"Ollama service is not available. Please ensure Ollama is running.">>,
     <<"Cannot connect to Ollama. Please ensure Ollama is running on port 11434.">>}

\* the messages the gateways give to a call that timed out
TimedOutMessages ==
    {<<"Request timed out. The code might be too long or complex.">>,
     <<"Request to Ollama timed out. Please try again.">>,
     <<"Request timed out. The model is taking too long to respond.">>}

\* the failure kind a gateway's message stands for
KindOfMessage(message) ==
    IF message \in UnreachableMessages THEN "unreachable"
    ELSE IF message \in TimedOutMessages THEN "timeout"
    ELSE "other"

\* the failure kinds the three gateways report for outcome o
GatewayKinds(o) ==
    <<KindOfMessage(GetReviewResult(o).message),
      KindOfMessage(call_ollama(o).error.detail),
      KindOfMessage(query_llama(o, DEFAULT_MODEL).fields["error"])>>

\* the failure kind the finished request reported to its caller
ReportedKind ==
    IF response.detail \in
           TimedOutDetails \cup TimedOutMessages THEN "timeout"
    ELSE IF response.detail \in
           UnreachableMessages
           \cup {<<"Cannot connect to Ollama. Please ensure it is running.">>}
    THEN "unreachable"
    ELSE "other"

\* C27 as stated: a transport failure that is both a connection error and
\* a timeout (a connect timeout) is classified as the same failure kind by
\* all three gateways: get_review, the meeting-notes call_ollama and
\* query_llama.
C27_ConnectTimeoutSameKind ==
    (/\ svc \in {"review_code", "process_audio", "extract_medical_info"}
     /\ pc = "done"
     /\ Len(posts) >= 1
     /\ LastAnswer = ConnectTimeout)
        => /\ ReportedKind \in {"timeout", "unreachable"}
           /\ \A g \in 1..3 : GatewayKinds(ConnectTimeout)[g] = ReportedKind

-----------------------------------------------------------------------------
(* The frontends *)

\* the clock values of the history entries
MaxClock == 11

\* the code-review page: reviews are added to the history
NextHistory ==
    \/ \E now \in 1..MaxClock, code \in HistoryCodes :
          add_to_history(now, code, Strip(TextOk), "general", CodeStats(code), 1)
    \/ respond
    \/ new_session

SpecHistory == Init /\ [][NextHistory]_vars

\* the medical-notes page: batch runs, and parse_structured_data on its own
NextBatch ==
    \/ \E df \in DataFrames : batch_start(df)
    \/ \E o \in ExtractOutcomes : batch_row(o)
    \/ \E text \in StructuredTexts : parse_call(text)
    \/ respond
    \/ new_session

SpecBatch == Init /\ [][NextBatch]_vars

\* C28: after any sequence of add_to_history calls the session history
\* holds at most 10 entries, ordered newest first: each call puts the new
\* review at index 0, and when the list already held 10 entries the oldest
\* one is dropped.
C28_HistoryNewestFirstAtMostTen ==
    /\ [](Len(history) <= 10)
    /\ [][(pc = "idle" /\ svc' = "add_to_history") =>
             /\ history'[1] =
                    HistoryEntry(request'.now, request'.code, request'.review,
                                 request'.review_type, request'.stats,
                                 request'.response_time)
             /\ Len(history') = IF Len(history) = 10 THEN 10
                                ELSE Len(history) + 1
             /\ \A i \in 2..Len(history') : history'[i] = history[i - 1]]_vars

C28_Witness ==
    /\ Finished("add_to_history")
    /\ Len(history) = 10
    /\ history[1].timestamp = request.now
    /\ history[10].timestamp > 1
    /\ \A i \in 1..9 : history[i].timestamp > history[i + 1].timestamp

\* the keys of the dict parse_structured_data is to return
ParsedKeys == {"symptoms", "diagnosis", "medications", "follow_up"}

\* C29 as stated: parse_structured_data is total: for every input string
\* it returns, without raising, a dict with exactly the keys symptoms,
\* diagnosis, medications and follow_up; for text that is not valid JSON all
\* four values are "N/A", and for valid JSON each missing field defaults to
\* "Not specified" (follow_up falling back to the key followUp).
C29_ParseTotal ==
    Finished("parse_structured_data") =>
        LET data == json_loads(request.structured_str)
            present(key) == data.kind = "dict" /\ key \in DOMAIN data.v
        IN  /\ response.exc = "none"
            /\ DOMAIN response.value = ParsedKeys
            /\ data = JSONDecodeError
                   => \A k \in ParsedKeys : response.value[k] = NotAvailable
            /\ data # JSONDecodeError
                   => /\ ~present(KeySymptoms)
                          => response.value.symptoms = NotSpecified
                      /\ ~present(KeyDiagnosis)
                          => response.value.diagnosis = NotSpecified
                      /\ ~present(KeyMedications)
                          => response.value.medications = NotSpecified
                      /\ (~present(KeyFollowUp) /\ present(KeyFollowUpCamel))
                          => response.value.follow_up = data.v[KeyFollowUpCamel]
                      /\ (~present(KeyFollowUp) /\ ~present(KeyFollowUpCamel))
                          => response.value.follow_up = NotSpecified

\* extract_note gave an error for the row of POST i
ExtractionFailed(i) == "error" \in DOMAIN extract_note(posts[i].answer)

\* C30 as stated: a batch run over n CSV rows processes the rows in order
\* and always yields exactly n results in row order: a row whose extraction
\* fails produces an entry with all four fields "Error" and does not stop
\* the rows after it from being processed, and the displayed Successful and
\* Failed counts sum to n.
C30_BatchYieldsAllRows ==
    Finished("batch") =>
        LET n == Len(request.df)
            results == batch.batch_results.v
        IN  /\ batch.batch_results.some
            /\ Len(results) = n
            /\ Len(posts) = n
            /\ \A i \in 1..n :
                   /\ posts[i].body.note = request.df[i].doctor_notes
                   /\ results[i].patient_id = request.df[i].patient_id
                   /\ ExtractionFailed(i)
                          => /\ results[i].symptoms = ErrorValue
                             /\ results[i].diagnosis = ErrorValue
                             /\ results[i].medications = ErrorValue
                             /\ results[i].follow_up = ErrorValue
            /\ n > 0 => /\ response.total = n
                        /\ response.successful + response.failed = n

=============================================================================
